---------------------------- MODULE Spec2Model ----------------------------
(***************************************************************************)
(* LifeHackAI: plan generation (backend/plans.py), the in-memory task      *)
(* store (backend/tasks.py) and the agent that turns plans into tasks and  *)
(* aggregates the dashboard (ai_agent/agent.py).                           *)
(*                                                                         *)
(* Time is counted in minutes since an arbitrary epoch.  Python strings    *)
(* that the code takes apart (due offsets) are sequences of one-character  *)
(* strings; strings that are only compared are TLA+ strings.               *)
(***************************************************************************)
EXTENDS Integers, Sequences, FiniteSets, TLC

VARIABLES
    tasks,          \* TaskManager.tasks: the list of task dictionaries
    next_id,        \* TaskManager.next_id
    clock,          \* the wall clock read by datetime.now()
    SAMPLE_PLANS,   \* the module-level template table of plans.py
    problems,       \* rows of the problems table: id -> category
    remembered,     \* history: one earlier result of generate_plan, or None
    issued,         \* history: the ids add_task returned, in order
    last,           \* the last call: its name, inputs, result and pre-state
    offset,         \* parse_due_offset: the argument of the call under study
    parsed,         \* parse_due_offset: its outcome
    request,        \* automation: the call under study, None when there is none
    in_flight,      \* task store: the add_task calls that have not returned, by caller
    completions     \* history: ids in the order their tasks became completed

vars == <<tasks, next_id, clock, SAMPLE_PLANS, problems, remembered, issued,
          last, offset, parsed, request, in_flight, completions>>

---------------------------------------------------------------------------
(* Bounds of the model *)

\* ids the task store may issue before add_task is no longer exercised
MaxId == 7
\* the clock is not advanced beyond this instant by Tick
MaxClock == 70
\* minutes that pass in one Tick
TickMinutes == 60
\* largest |n| of the integers whose decimal form is given to parse_due_offset
MaxN == 31
\* largest problem id given to generate_plan / solve_problem
MaxProblemId == 5
\* largest task id given to update_task / delete_task
MaxTaskArg == 1
\* rows the problems table may hold
MaxProblems == 4
\* the ids 1..MaxCompleted are the tasks that get completed
MaxCompleted == 4
\* the largest number of add_task calls before the dashboard is studied
MaxStore == 11
\* the largest income of a budget snapshot
MaxIncome == 100
\* the largest hour passed to create_daily_schedule
MaxHour == 23
\* the most tasks added to the store before the two concurrent calls
MaxEarlier == 3
\* ids the task store may issue while plans of several problems are
\* materialized
MaxBatchId == 12

---------------------------------------------------------------------------
(* Python values *)

None == [none |-> TRUE]

\* the outcome of a call that may raise
Ok(v) == [ok |-> TRUE, val |-> v]
Raise(e) == [ok |-> FALSE, err |-> e]

DigitSeq == <<"0", "1", "2", "3", "4", "5", "6", "7", "8", "9">>
Digit == {DigitSeq[i] : i \in 1..10}
DigitVal(c) == (CHOOSE i \in 1..10 : DigitSeq[i] = c) - 1

RECURSIVE DecVal(_)
\* the value of a non-empty sequence of decimal digits
DecVal(s) ==
    IF Len(s) = 0 THEN 0
    ELSE 10 * DecVal(SubSeq(s, 1, Len(s) - 1)) + DigitVal(s[Len(s)])

\* int(s) for s over the alphabet digits, sign and letters: an optional sign,
\* then at least one digit and nothing else; anything else is a ValueError
int(s) ==
    LET signed == Len(s) > 0 /\ s[1] \in {"-", "+"}
        body == IF signed THEN Tail(s) ELSE s
        valid == Len(body) > 0 /\ \A i \in 1..Len(body) : body[i] \in Digit
    IN  IF ~valid THEN Raise("ValueError")
        ELSE IF signed /\ s[1] = "-" THEN Ok(0 - DecVal(body))
        ELSE Ok(DecVal(body))

RECURSIVE DecStr(_)
DecStr(n) ==
    IF n < 10 THEN <<DigitSeq[n + 1]>>
    ELSE DecStr(n \div 10) \o <<DigitSeq[(n % 10) + 1]>>

\* str(n) of a Python int
str(n) == IF n < 0 THEN <<"-">> \o DecStr(0 - n) ELSE DecStr(n)

---------------------------------------------------------------------------
(* Python floats: IEEE 754 binary64.  A natural number is its sequence of
   limbs, least significant first, without leading zero limbs; a float is
   sign * m * 2^e with m odd (m = 0, e = 0 for zero).  Every operation gives
   the exact result rounded to 53 significant bits, ties to even; the values
   of the model stay far from overflow and underflow. *)

LimbBits == 15
LimbBase == 32768
MantissaBits == 53

\* F(v), with v computed once however often F uses it
With(v, F(_)) == CHOOSE value \in {F(x) : x \in {v}} : TRUE

RECURSIVE NatOf(_)
NatOf(n_) ==
    CHOOSE value \in {(
        IF n = 0 THEN <<>> ELSE <<n % LimbBase>> \o NatOf(n \div LimbBase)
      ) : n \in {n_}} : TRUE

RECURSIVE Trim(_)
Trim(a_) ==
    CHOOSE value \in {(
        IF Len(a) = 0 THEN a
        ELSE IF a[Len(a)] = 0 THEN Trim(SubSeq(a, 1, Len(a) - 1))
        ELSE a
      ) : a \in {a_}} : TRUE

Limb(a_, i_) ==
    CHOOSE value \in {(
        IF i <= Len(a) THEN a[i] ELSE 0
      ) : a \in {a_}, i \in {i_}} : TRUE

Rest(a_) ==
    CHOOSE value \in {(
        IF Len(a) = 0 THEN a ELSE Tail(a)
      ) : a \in {a_}} : TRUE

RECURSIVE AddCarry(_, _, _)
AddCarry(a_, b_, c_) ==
    CHOOSE value \in {(
        IF Len(a) = 0 /\ Len(b) = 0 THEN (IF c = 0 THEN <<>> ELSE <<c>>)
        ELSE LET x == Limb(a, 1) + Limb(b, 1) + c
             IN  <<x % LimbBase>> \o AddCarry(Rest(a), Rest(b), x \div LimbBase)
      ) : a \in {a_}, b \in {b_}, c \in {c_}} : TRUE

NatAdd(a_, b_) ==
    CHOOSE value \in {(
        AddCarry(a, b, 0)
      ) : a \in {a_}, b \in {b_}} : TRUE

RECURSIVE SubBorrow(_, _, _)
SubBorrow(a_, b_, c_) ==
    CHOOSE value \in {(
        IF Len(a) = 0 THEN <<>>
        ELSE LET x == Limb(a, 1) - Limb(b, 1) - c
             IN  IF x < 0 THEN <<x + LimbBase>> \o SubBorrow(Rest(a), Rest(b), 1)
                 ELSE <<x>> \o SubBorrow(Rest(a), Rest(b), 0)
      ) : a \in {a_}, b \in {b_}, c \in {c_}} : TRUE

\* a - b for a >= b
NatSub(a_, b_) ==
    CHOOSE value \in {(
        Trim(SubBorrow(a, b, 0))
      ) : a \in {a_}, b \in {b_}} : TRUE

RECURSIVE CmpFrom(_, _, _)
CmpFrom(a_, b_, i_) ==
    CHOOSE value \in {(
        IF i = 0 THEN 0
        ELSE IF a[i] < b[i] THEN 0 - 1
        ELSE IF a[i] > b[i] THEN 1
        ELSE CmpFrom(a, b, i - 1)
      ) : a \in {a_}, b \in {b_}, i \in {i_}} : TRUE

\* -1, 0, 1 as a < b, a = b, a > b
NatCmp(a_, b_) ==
    CHOOSE value \in {(
        IF Len(a) < Len(b) THEN 0 - 1
        ELSE IF Len(a) > Len(b) THEN 1
        ELSE CmpFrom(a, b, Len(a))
      ) : a \in {a_}, b \in {b_}} : TRUE

RECURSIVE MulSmallCarry(_, _, _)
MulSmallCarry(a_, d_, c_) ==
    CHOOSE value \in {(
        IF Len(a) = 0 THEN (IF c = 0 THEN <<>> ELSE <<c>>)
        ELSE LET x == Head(a) * d + c
             IN  <<x % LimbBase>> \o MulSmallCarry(Tail(a), d, x \div LimbBase)
      ) : a \in {a_}, d \in {d_}, c \in {c_}} : TRUE

\* a * d for 0 <= d < LimbBase
NatMulSmall(a_, d_) ==
    CHOOSE value \in {(
        Trim(MulSmallCarry(a, d, 0))
      ) : a \in {a_}, d \in {d_}} : TRUE

ShiftLimbs(a_, k_) ==
    CHOOSE value \in {(
        IF Len(a) = 0 THEN a ELSE [i \in 1..k |-> 0] \o a
      ) : a \in {a_}, k \in {k_}} : TRUE

RECURSIVE NatMul(_, _)
NatMul(a_, b_) ==
    CHOOSE value \in {(
        IF Len(b) = 0 THEN <<>>
        ELSE NatAdd(NatMulSmall(a, Head(b)), ShiftLimbs(NatMul(a, Tail(b)), 1))
      ) : a \in {a_}, b \in {b_}} : TRUE

RECURSIVE DivSmallRec(_, _)
DivSmallRec(a_, d_) ==
    CHOOSE value \in {(
        IF Len(a) = 0 THEN [q |-> <<>>, r |-> 0]
        ELSE With(DivSmallRec(Tail(a), d), LAMBDA hi :
             With(hi.r * LimbBase + Head(a), LAMBDA cur :
                [q |-> <<cur \div d>> \o hi.q, r |-> cur % d]))
      ) : a \in {a_}, d \in {d_}} : TRUE

RECURSIVE Pow2(_)
Pow2(k_) ==
    CHOOSE value \in {(
        IF k = 0 THEN 1 ELSE 2 * Pow2(k - 1)
      ) : k \in {k_}} : TRUE

\* a * 2^k
NatShl(a_, k_) ==
    CHOOSE value \in {(
        ShiftLimbs(NatMulSmall(a, Pow2(k % LimbBits)), k \div LimbBits)
      ) : a \in {a_}, k \in {k_}} : TRUE

\* a \div 2^k
NatShr(a_, k_) ==
    CHOOSE value \in {(
        LET whole == k \div LimbBits
        IN  IF whole >= Len(a) THEN <<>>
            ELSE Trim(DivSmallRec(SubSeq(a, whole + 1, Len(a)),
                                  Pow2(k % LimbBits)).q)
      ) : a \in {a_}, k \in {k_}} : TRUE

RECURSIVE SmallBitLen(_)
SmallBitLen(n_) ==
    CHOOSE value \in {(
        IF n = 0 THEN 0 ELSE 1 + SmallBitLen(n \div 2)
      ) : n \in {n_}} : TRUE

BitLen(a_) ==
    CHOOSE value \in {(
        IF Len(a) = 0 THEN 0
        ELSE LimbBits * (Len(a) - 1) + SmallBitLen(a[Len(a)])
      ) : a \in {a_}} : TRUE

NatIsOdd(a_) ==
    CHOOSE value \in {(
        Len(a) > 0 /\ a[1] % 2 = 1
      ) : a \in {a_}} : TRUE

\* one step of binary long division: bit i of the quotient
DivStep(st_, b_, i_) ==
    CHOOSE value \in {(
        With(NatShl(b, i), LAMBDA shifted :
           IF NatCmp(shifted, st.r) <= 0
           THEN [q |-> NatAdd(st.q, NatShl(<<1>>, i)),
                 r |-> NatSub(st.r, shifted)]
           ELSE st)
      ) : st \in {st_}, b \in {b_}, i \in {i_}} : TRUE

RECURSIVE DivBits(_, _, _, _)
\* the steps for the bits hi, hi - 1, ..., lo, the upper half first
DivBits(st_, b_, lo_, hi_) ==
    CHOOSE value \in {(
        IF hi < lo THEN st
        ELSE IF lo = hi THEN DivStep(st, b, lo)
        ELSE LET mid == (lo + hi + 1) \div 2
             IN  DivBits(DivBits(st, b, mid, hi), b, lo, mid - 1)
      ) : st \in {st_}, b \in {b_}, lo \in {lo_}, hi \in {hi_}} : TRUE

\* quotient and remainder of a by b > 0
NatDivMod(a_, b_) ==
    CHOOSE value \in {(
        DivBits([q |-> <<>>, r |-> a], b, 0, BitLen(a) - BitLen(b))
      ) : a \in {a_}, b \in {b_}} : TRUE

RECURSIVE SmallTrailingZeros(_)
SmallTrailingZeros(n_) ==
    CHOOSE value \in {(
        IF n % 2 = 1 THEN 0 ELSE 1 + SmallTrailingZeros(n \div 2)
      ) : n \in {n_}} : TRUE

RECURSIVE TrailingZeros(_)
\* the number of zero bits below the lowest set bit of a > 0
TrailingZeros(a_) ==
    CHOOSE value \in {(
        IF a[1] = 0 THEN LimbBits + TrailingZeros(Tail(a))
        ELSE SmallTrailingZeros(a[1])
      ) : a \in {a_}} : TRUE

FloatZero == [sign |-> 1, m |-> <<>>, e |-> 0]

\* the float sign * m * 2^e for m of at most 53 bits
Canonical(sign_, m_, e_) ==
    CHOOSE value \in {(
        IF Len(m) = 0 THEN FloatZero
        ELSE With(TrailingZeros(m), LAMBDA zeros :
                [sign |-> sign, m |-> NatShr(m, zeros), e |-> e + zeros])
      ) : sign \in {sign_}, m \in {m_}, e \in {e_}} : TRUE

\* the float nearest to sign * m * 2^e, ties to the even mantissa
RoundToNearestEven(sign_, m_, e_) ==
    CHOOSE value \in {(
        IF BitLen(m) <= MantissaBits THEN Canonical(sign, m, e)
        ELSE With(BitLen(m) - MantissaBits, LAMBDA shift :
             With(NatShr(m, shift), LAMBDA q :
             With(NatCmp(NatSub(m, NatShl(q, shift)),
                         NatShl(<<1>>, shift - 1)), LAMBDA c :
                LET up == c > 0 \/ (c = 0 /\ NatIsOdd(q))
                IN  Canonical(sign, IF up THEN NatAdd(q, <<1>>) ELSE q,
                              e + shift))))
      ) : sign \in {sign_}, m \in {m_}, e \in {e_}} : TRUE

\* float(n) of a Python int
FloatOfInt(n_) ==
    CHOOSE value \in {(
        IF n < 0 THEN Canonical(0 - 1, NatOf(0 - n), 0) ELSE Canonical(1, NatOf(n), 0)
      ) : n \in {n_}} : TRUE

FloatNeg(x_) ==
    CHOOSE value \in {(
        IF Len(x.m) = 0 THEN x ELSE [x EXCEPT !.sign = 0 - x.sign]
      ) : x \in {x_}} : TRUE

\* x + y without rounding: sign, mantissa of any length, exponent
ExactSum(x_, y_) ==
    CHOOSE value \in {(
        LET e == IF x.e < y.e THEN x.e ELSE y.e
        IN  With(NatShl(x.m, x.e - e), LAMBDA ax :
            With(NatShl(y.m, y.e - e), LAMBDA ay :
               IF x.sign = y.sign
               THEN [sign |-> x.sign, m |-> NatAdd(ax, ay), e |-> e]
               ELSE IF NatCmp(ax, ay) >= 0
               THEN [sign |-> x.sign, m |-> NatSub(ax, ay), e |-> e]
               ELSE [sign |-> y.sign, m |-> NatSub(ay, ax), e |-> e]))
      ) : x \in {x_}, y \in {y_}} : TRUE

FloatAdd(x_, y_) ==
    CHOOSE value \in {(
        With(ExactSum(x, y), LAMBDA s : RoundToNearestEven(s.sign, s.m, s.e))
      ) : x \in {x_}, y \in {y_}} : TRUE

FloatSub(x_, y_) ==
    CHOOSE value \in {(
        FloatAdd(x, FloatNeg(y))
      ) : x \in {x_}, y \in {y_}} : TRUE

FloatMul(x_, y_) ==
    CHOOSE value \in {(
        RoundToNearestEven(x.sign * y.sign, NatMul(x.m, y.m), x.e + y.e)
      ) : x \in {x_}, y \in {y_}} : TRUE

\* x / y for y # 0: the quotient to 56 bits or more, one more bit set when
\* the division leaves a remainder, then rounded
FloatDiv(x_, y_) ==
    CHOOSE value \in {(
        LET need == (MantissaBits + 3) + BitLen(y.m) - BitLen(x.m)
            k == IF need > 0 THEN need ELSE 0
        IN  With(NatDivMod(NatShl(x.m, k), y.m), LAMBDA d :
               IF Len(d.r) = 0
               THEN RoundToNearestEven(x.sign * y.sign, d.q, x.e - y.e - k)
               ELSE RoundToNearestEven(x.sign * y.sign,
                                       NatAdd(NatShl(d.q, 1), <<1>>),
                                       x.e - y.e - k - 1))
      ) : x \in {x_}, y \in {y_}} : TRUE

\* x < y, x > y
FloatLess(x_, y_) ==
    CHOOSE value \in {(
        With(ExactSum(x, FloatNeg(y)), LAMBDA d : Len(d.m) > 0 /\ d.sign < 0)
      ) : x \in {x_}, y \in {y_}} : TRUE
FloatGreater(x_, y_) ==
    CHOOSE value \in {(
        FloatLess(y, x)
      ) : x \in {x_}, y \in {y_}} : TRUE

\* the float a decimal literal num/den denotes: the nearest one
FloatLiteral(num_, den_) ==
    CHOOSE value \in {(
        FloatDiv(FloatOfInt(num), FloatOfInt(den))
      ) : num \in {num_}, den \in {den_}} : TRUE

---------------------------------------------------------------------------
(* backend/plans.py *)

parse_due_offset_days_as_hours(off) ==
    IF Len(off) = 0 THEN Raise("IndexError")
    ELSE LET unit == off[Len(off)]
             value == int(SubSeq(off, 1, Len(off) - 1))
         IN  IF ~value.ok THEN value
             ELSE IF unit = "h" THEN Ok(value.val * 60)
             ELSE IF unit = "d" THEN Ok(value.val * 24)
             ELSE IF unit = "w" THEN Ok(value.val * 7 * 24 * 60)
             ELSE Ok(value.val)

parse_due_offset_unit_ignored(off) ==
    IF Len(off) = 0 THEN Raise("IndexError")
    ELSE int(SubSeq(off, 1, Len(off) - 1))

parse_due_offset_unit_kept(off) ==
    IF Len(off) = 0 THEN Raise("IndexError")
    ELSE LET unit == off[Len(off)]
             value == IF unit \in Digit
                      THEN int(off)
                      ELSE int(SubSeq(off, 1, Len(off) - 1))
         IN  IF ~value.ok THEN value
             ELSE IF unit = "h" THEN Ok(value.val * 60)
             ELSE IF unit = "d" THEN Ok(value.val * 24 * 60)
             ELSE IF unit = "w" THEN Ok(value.val * 7 * 24 * 60)
             ELSE Ok(value.val)

\* parse_due_offset(offset): offset[-1] is the unit, int(offset[:-1]) the value
parse_due_offset(off) ==
    IF Len(off) = 0 THEN Raise("IndexError")
    ELSE LET unit == off[Len(off)]
             value == int(SubSeq(off, 1, Len(off) - 1))
         IN  IF ~value.ok THEN value
             ELSE IF unit = "h" THEN Ok(value.val * 60)
             ELSE IF unit = "d" THEN Ok(value.val * 24 * 60)
             ELSE IF unit = "w" THEN Ok(value.val * 7 * 24 * 60)
             ELSE Ok(value.val)

Step(i, t, d, o) == [step_id |-> i, title |-> t, details |-> d, due_offset |-> o]

\* the initial value of SAMPLE_PLANS
SamplePlansTable ==
    [shopping |->
       [summary |-> "Optimize your weekly grocery shopping to save time and money",
        steps |-> <<
          Step(1, "Create a meal plan", "Plan your meals for the week to know exactly what you need", <<"0", "h">>),
          Step(2, "Take inventory", "Check what you already have to avoid buying duplicates", <<"1", "h">>),
          Step(3, "Make a shopping list", "Create a detailed list organized by store sections", <<"2", "h">>),
          Step(4, "Compare prices online", "Check weekly ads and apps for deals", <<"1", "d">>),
          Step(5, "Shop during off-peak hours", "Go early morning or late evening to avoid crowds", <<"2", "d">>),
          Step(6, "Batch cook and freeze", "Prepare meals in bulk to save time later", <<"3", "d">>) >>],
     productivity |->
       [summary |-> "Establish an effective morning routine for better daily productivity",
        steps |-> <<
          Step(1, "Plan the night before", "Set out your priorities for the next day before bed", <<"0", "h">>),
          Step(2, "Wake up consistently", "Set a regular wake-up time, even on weekends", <<"1", "d">>),
          Step(3, "Hydrate first", "Drink a glass of water before anything else", <<"1", "d">>),
          Step(4, "No screens for 30 minutes", "Avoid checking email or social media right away", <<"1", "d">>),
          Step(5, "Exercise briefly", "Do 5-10 minutes of stretching or light movement", <<"1", "d">>),
          Step(6, "Review your day's plan", "Check your calendar and top priorities", <<"1", "d">>) >>],
     finance |->
       [summary |-> "Create and maintain a personal monthly budget",
        steps |-> <<
          Step(1, "Track current spending", "Record all expenses for two weeks to establish a baseline", <<"0", "h">>),
          Step(2, "Categorize expenses", "Group spending into categories (housing, food, transport, etc.)", <<"1", "4", "d">>),
          Step(3, "Set category limits", "Establish reasonable spending limits for each category", <<"1", "5", "d">>),
          Step(4, "Create a budget document", "Use a spreadsheet or app to formalize your budget", <<"1", "6", "d">>),
          Step(5, "Set up tracking system", "Choose a method to track expenses against budget", <<"1", "7", "d">>),
          Step(6, "Schedule weekly reviews", "Set aside 15 minutes weekly to review and adjust", <<"1", "8", "d">>) >>],
     general |->
       [summary |-> "Solve your daily life problem with a structured approach",
        steps |-> <<
          Step(1, "Define the problem clearly", "Write down exactly what you're trying to solve", <<"0", "h">>),
          Step(2, "Break it into smaller parts", "Divide the problem into manageable components", <<"1", "h">>),
          Step(3, "Research solutions", "Look for how others have solved similar problems", <<"1", "d">>),
          Step(4, "Create an action plan", "List specific steps with deadlines", <<"2", "d">>),
          Step(5, "Execute first step", "Complete the first action item", <<"3", "d">>),
          Step(6, "Review and adjust", "Evaluate progress and modify plan as needed", <<"7", "d">>) >>]]


problem_categories == <<"shopping", "productivity", "finance", "general">>

\* datetime.isoformat() of an instant: calendar day, hour and minute fields
isoformat(t) ==
    [day |-> t \div 1440, hour |-> (t % 1440) \div 60, minute |-> t % 60]

\* datetime.fromisoformat() of such a string
fromisoformat(s) == s.day * 1440 + s.hour * 60 + s.minute

\* dict.get(key, default)
DictGet(d, key, default) == IF key \in DOMAIN d THEN d[key] ELSE default

generate_plan_id_is_problem_id(problem_id) ==
    LET category == DictGet(problem_categories, problem_id, "general")
        plan_template == DictGet(SAMPLE_PLANS, category, SAMPLE_PLANS["general"])
    IN  [plan_id |-> problem_id,
         problem_id |-> problem_id,
         generated_at |-> isoformat(clock),
         summary |-> plan_template["summary"],
         steps |-> plan_template["steps"]]

generate_plan_time_seeded(problem_id) ==
    LET keys == <<"shopping", "productivity", "finance", "general">>
        category == DictGet(problem_categories, problem_id,
                            keys[((clock \div 60 + clock) % 4) + 1])
        plan_template == DictGet(SAMPLE_PLANS, category, SAMPLE_PLANS["general"])
    IN  [plan_id |-> 1,
         problem_id |-> problem_id,
         generated_at |-> isoformat(clock),
         summary |-> plan_template["summary"],
         steps |-> plan_template["steps"]]

generate_plan_first_template_fallback(problem_id) ==
    LET category == DictGet(problem_categories, problem_id, "shopping")
        plan_template == DictGet(SAMPLE_PLANS, category, SAMPLE_PLANS["shopping"])
    IN  [plan_id |-> 1,
         problem_id |-> problem_id,
         generated_at |-> isoformat(clock),
         summary |-> plan_template["summary"],
         steps |-> plan_template["steps"]]

\* generate_plan(problem_id), called when the clock reads `clock`
generate_plan(problem_id) ==
    LET category == DictGet(problem_categories, problem_id, "general")
        plan_template == DictGet(SAMPLE_PLANS, category, SAMPLE_PLANS["general"])
    IN  [plan_id |-> 1,
         problem_id |-> problem_id,
         generated_at |-> isoformat(clock),
         summary |-> plan_template["summary"],
         steps |-> plan_template["steps"]]

---------------------------------------------------------------------------
(* backend/tasks.py: TaskManager, as operators on tm = [tasks, next_id] *)

TaskManagerInit == [tasks |-> <<>>, next_id |-> 1]

new_task_id_from_length(tm, plan_id, title, due_at) ==
    [id |-> Len(tm.tasks) + 1, plan_id |-> plan_id, title |-> title,
     due_at |-> due_at, status |-> "pending"]

\* get_tasks_by_plan(plan_id)
get_tasks_by_plan(tm, plan_id) ==
    LET OfPlan(task) == task.plan_id = plan_id
    IN  SelectSeq(tm.tasks, OfPlan)

\* the first statement of add_task: the dictionary built from the counter
new_task(tm, plan_id, title, due_at) ==
    [id |-> tm.next_id, plan_id |-> plan_id, title |-> title,
     due_at |-> due_at, status |-> "pending"]

add_task_id_from_length(tm, plan_id, title, due_at) ==
    LET task == [id |-> Len(tm.tasks) + 1, plan_id |-> plan_id, title |-> title,
                 due_at |-> due_at, status |-> "pending"]
    IN  [tm |-> [tasks |-> Append(tm.tasks, task), next_id |-> tm.next_id + 1],
         ret |-> task.id]

\* add_task: returns the new store and the id of the task
add_task(tm, plan_id, title, due_at) ==
    LET task == [id |-> tm.next_id, plan_id |-> plan_id, title |-> title,
                 due_at |-> due_at, status |-> "pending"]
    IN  [tm |-> [tasks |-> Append(tm.tasks, task), next_id |-> tm.next_id + 1],
         ret |-> task.id]

\* the position of the first task with this id, 0 when there is none
IndexOfId(tm, task_id) ==
    IF \E i \in 1..Len(tm.tasks) : tm.tasks[i].id = task_id
    THEN CHOOSE i \in 1..Len(tm.tasks) :
            /\ tm.tasks[i].id = task_id
            /\ \A j \in 1..(i - 1) : tm.tasks[j].id # task_id
    ELSE 0

get_task_loop_variable_returned(tm, task_id) ==
    IF IndexOfId(tm, task_id) = 0
    THEN IF Len(tm.tasks) = 0 THEN None ELSE tm.tasks[Len(tm.tasks)]
    ELSE tm.tasks[IndexOfId(tm, task_id)]

get_task(tm, task_id) ==
    IF IndexOfId(tm, task_id) = 0 THEN None
    ELSE tm.tasks[IndexOfId(tm, task_id)]

get_all_tasks(tm) == tm.tasks

update_task_readded_at_end(tm, task_id, status) ==
    LET i == IndexOfId(tm, task_id)
    IN  IF i = 0 THEN [tm |-> tm, ret |-> None]
        ELSE LET task == [tm.tasks[i] EXCEPT !.status = status]
             IN  [tm |-> [tm EXCEPT !.tasks =
                            Append(SubSeq(tm.tasks, 1, i - 1)
                                   \o SubSeq(tm.tasks, i + 1, Len(tm.tasks)), task)],
                  ret |-> task]

\* update_task: the task found by get_task gets the status, in place
update_task(tm, task_id, status) ==
    LET i == IndexOfId(tm, task_id)
    IN  IF i = 0 THEN [tm |-> tm, ret |-> None]
        ELSE LET task == [tm.tasks[i] EXCEPT !.status = status]
             IN  [tm |-> [tm EXCEPT !.tasks[i] = task], ret |-> task]

\* list.remove(x): drops the first element equal to x
ListRemove(l, x) ==
    LET i == CHOOSE k \in 1..Len(l) : l[k] = x /\ \A j \in 1..(k - 1) : l[j] # x
    IN  SubSeq(l, 1, i - 1) \o SubSeq(l, i + 1, Len(l))

delete_task_drops_plan(tm, task_id) ==
    LET task == get_task(tm, task_id)
        OtherPlan(t) == t.plan_id # task.plan_id
    IN  IF task = None THEN [tm |-> tm, ret |-> FALSE]
        ELSE [tm |-> [tm EXCEPT !.tasks = SelectSeq(tm.tasks, OtherPlan)],
              ret |-> TRUE]

delete_task(tm, task_id) ==
    LET task == get_task(tm, task_id)
    IN  IF task = None THEN [tm |-> tm, ret |-> FALSE]
        ELSE [tm |-> [tm EXCEPT !.tasks = ListRemove(tm.tasks, task)], ret |-> TRUE]

---------------------------------------------------------------------------
(* ai_agent/agent.py: LifeHackAgent *)

RECURSIVE CreateLoop(_, _, _, _, _)
\* the for loop of _create_tasks_from_plan from step k on; an exception of
\* parse_due_offset leaves the loop with the tasks added so far in the store
CreateLoop(tm, plan, base_time, k, acc) ==
    IF k > Len(plan.steps) THEN [tm |-> tm, tasks |-> acc, raised |-> None]
    ELSE LET step == plan.steps[k]
             offset_minutes == parse_due_offset(step.due_offset)
         IN  IF ~offset_minutes.ok
             THEN [tm |-> tm, tasks |-> acc, raised |-> offset_minutes]
             ELSE LET due_time == base_time + offset_minutes.val
                      added == add_task(tm, plan.plan_id, step.title,
                                        isoformat(due_time))
                      task == get_task(added.tm, added.ret)
                  IN  CreateLoop(added.tm, plan, base_time, k + 1,
                                 Append(acc, task))

create_tasks_from_plan_generated_at(tm, plan, base_time) ==
    CreateLoop(tm, plan, fromisoformat(plan.generated_at), 1, <<>>)

create_tasks_from_plan_skip_first(tm, plan, base_time) ==
    CreateLoop(tm, plan, base_time, 2, <<>>)

\* _create_tasks_from_plan(plan), base_time being the instant datetime.now()
\* returns at its start
create_tasks_from_plan(tm, plan, base_time) ==
    CreateLoop(tm, plan, base_time, 1, <<>>)

\* Python's order of two isoformat strings (field by field, left to right)
IsoLess(a, b) ==
    \/ a.day < b.day
    \/ a.day = b.day /\ a.hour < b.hour
    \/ a.day = b.day /\ a.hour = b.hour /\ a.minute < b.minute

RECURSIVE InsertByDue(_, _)
\* x put into the list l, sorted by due_at, behind every element whose
\* due_at is not greater
InsertByDue(l, x) ==
    IF Len(l) = 0 THEN <<x>>
    ELSE IF IsoLess(x.due_at, Head(l).due_at) THEN <<x>> \o l
    ELSE <<Head(l)>> \o InsertByDue(Tail(l), x)

SortedByDue_store_order(l) == l

RECURSIVE SortedByDue(_)
\* sorted(l, key=lambda x: x["due_at"]): ascending, stable
SortedByDue(l) ==
    IF Len(l) = 0 THEN <<>>
    ELSE InsertByDue(SortedByDue(SubSeq(l, 1, Len(l) - 1)), l[Len(l)])

\* x.get("completed_at", ""): no task dictionary has the key
CompletedAtKey(x) == IF "completed_at" \in DOMAIN x THEN x.completed_at ELSE ""

RECURSIVE InsertByCompletedAtDesc(_, _)
\* x put into the list l, sorted by descending key, behind every element
\* whose key is not smaller; the only key that occurs is ""
InsertByCompletedAtDesc(l, x) ==
    IF Len(l) = 0 THEN <<x>>
    ELSE IF CompletedAtKey(x) # CompletedAtKey(Head(l)) THEN <<x>> \o l
    ELSE <<Head(l)>> \o InsertByCompletedAtDesc(Tail(l), x)

RECURSIVE SortedByCompletedAtDesc(_)
\* sorted(l, key=lambda x: x.get("completed_at", ""), reverse=True): stable
SortedByCompletedAtDesc(l) ==
    IF Len(l) = 0 THEN <<>>
    ELSE InsertByCompletedAtDesc(
            SortedByCompletedAtDesc(SubSeq(l, 1, Len(l) - 1)), l[Len(l)])

\* l[:n]
Take(l, n) == SubSeq(l, 1, IF Len(l) < n THEN Len(l) ELSE n)

IsPending(t) == t.status = "pending"
IsCompleted(t) == t.status = "completed"

OverdueMessage(n) ==
    <<"You have ", n, " overdue tasks. Consider rescheduling or completing them.">>
ManyPendingMessage ==
    <<"You have many pending tasks. Consider prioritizing the most important ones.">>
NoPendingMessage ==
    <<"Great job! You have no pending tasks. Consider creating a new plan for your next goal.">>

Dashboard_many_from_ten(all_tasks, pending_tasks, completed_tasks, overdue_tasks, now) ==
    [generated_at |-> isoformat(now),
     task_summary |->
        [total_tasks |-> Len(all_tasks),
         pending_tasks |-> Len(pending_tasks),
         completed_tasks |-> Len(completed_tasks),
         overdue_tasks |-> Len(overdue_tasks)],
     upcoming_tasks |-> Take(SortedByDue(pending_tasks), 5),
     recent_completions |->
        Take(SortedByCompletedAtDesc(completed_tasks), 3),
     recommendations |->
        (IF Len(overdue_tasks) > 0 THEN <<OverdueMessage(Len(overdue_tasks))>>
         ELSE <<>>)
        \o (IF Len(pending_tasks) >= 10 THEN <<ManyPendingMessage>> ELSE <<>>)
        \o (IF Len(pending_tasks) = 0 THEN <<NoPendingMessage>> ELSE <<>>)]

Dashboard(all_tasks, pending_tasks, completed_tasks, overdue_tasks, now) ==
    [generated_at |-> isoformat(now),
     task_summary |->
        [total_tasks |-> Len(all_tasks),
         pending_tasks |-> Len(pending_tasks),
         completed_tasks |-> Len(completed_tasks),
         overdue_tasks |-> Len(overdue_tasks)],
     upcoming_tasks |-> Take(SortedByDue(pending_tasks), 5),
     recent_completions |->
        Take(SortedByCompletedAtDesc(completed_tasks), 3),
     recommendations |->
        (IF Len(overdue_tasks) > 0 THEN <<OverdueMessage(Len(overdue_tasks))>>
         ELSE <<>>)
        \o (IF Len(pending_tasks) > 10 THEN <<ManyPendingMessage>> ELSE <<>>)
        \o (IF Len(pending_tasks) = 0 THEN <<NoPendingMessage>> ELSE <<>>)]

get_user_dashboard_due_now_overdue(tm, now) ==
    LET all_tasks == get_all_tasks(tm)
        pending_tasks == SelectSeq(all_tasks, IsPending)
        completed_tasks == SelectSeq(all_tasks, IsCompleted)
        IsOverdue(t) == fromisoformat(t.due_at) <= now
    IN  Dashboard(all_tasks, pending_tasks, completed_tasks,
                  SelectSeq(pending_tasks, IsOverdue), now)

get_user_dashboard_completed_is_not_pending(tm, now) ==
    LET all_tasks == get_all_tasks(tm)
        NotPending(t) == t.status # "pending"
        pending_tasks == SelectSeq(all_tasks, IsPending)
        completed_tasks == SelectSeq(all_tasks, NotPending)
        IsOverdue(t) == fromisoformat(t.due_at) < now
    IN  Dashboard(all_tasks, pending_tasks, completed_tasks,
                  SelectSeq(pending_tasks, IsOverdue), now)

\* get_user_dashboard(), now being the instant its datetime.now() returns
get_user_dashboard(tm, now) ==
    LET all_tasks == get_all_tasks(tm)
        pending_tasks == SelectSeq(all_tasks, IsPending)
        completed_tasks == SelectSeq(all_tasks, IsCompleted)
        IsOverdue(t) == fromisoformat(t.due_at) < now
    IN  Dashboard(all_tasks, pending_tasks, completed_tasks,
                  SelectSeq(pending_tasks, IsOverdue), now)

get_user_dashboard_call_sorts_store(tm, now) ==
    [tm |-> [tm EXCEPT !.tasks = SortedByDue(tm.tasks)],
     ret |-> get_user_dashboard(tm, now)]

\* the call as a whole: the dashboard it returns and the task manager it
\* leaves; the lists it filters and sorts are new lists, the store's own list
\* (which get_all_tasks hands out) and its dictionaries are only read
get_user_dashboard_call(tm, now) ==
    [tm |-> tm, ret |-> get_user_dashboard(tm, now)]

---------------------------------------------------------------------------
(* automation/runners: the registered scripts.  kwargs is the dictionary of
   keyword arguments of the call, now the instant datetime.now() returns,
   write_ok whether the data file can be written *)

NoKwargs == [k \in {} |-> 0]

\* f(**kwargs): the TypeError of a call whose keywords do not fit the
\* signature, None when they fit
BindError(kwargs, params, required) ==
    IF ~(DOMAIN kwargs \subseteq params)
    THEN Raise("got an unexpected keyword argument")
    ELSE IF ~(required \subseteq DOMAIN kwargs)
    THEN Raise("missing 1 required positional argument")
    ELSE None

\* the float literals of the split: 0.3, 0.15, 0.1, 0.05, 0.1, 0.2, 0.1
rates ==
    [housing |-> FloatLiteral(3, 10), food |-> FloatLiteral(15, 100),
     transportation |-> FloatLiteral(1, 10),
     utilities |-> FloatLiteral(5, 100),
     entertainment |-> FloatLiteral(1, 10), savings |-> FloatLiteral(2, 10),
     other |-> FloatLiteral(1, 10)]

\* income * 0.3 and the like: the int times the float the literal denotes
Share(income_, rate_) ==
    CHOOSE value \in {(
        FloatMul(FloatOfInt(income), rate)
      ) : income \in {income_}, rate \in {rate_}} : TRUE

\* (amount / income) * 100
PercentOf(amount_, income_) ==
    CHOOSE value \in {(
        FloatMul(FloatDiv(amount, FloatOfInt(income)), FloatOfInt(100))
      ) : amount \in {amount_}, income \in {income_}} : TRUE

create_budget_snapshot(kwargs, now, write_ok) ==
    LET income == DictGet(kwargs, "income", 3000)
        save_to_file == DictGet(kwargs, "save_to_file", TRUE)
        Snapshot(expenses, savings) ==
            With(FloatAdd(FloatAdd(FloatAdd(FloatAdd(FloatAdd(
                    expenses.housing, expenses.food), expenses.transportation),
                    expenses.utilities), expenses.entertainment),
                    expenses.other),
                 LAMBDA total_expenses :
                    [date |-> isoformat(now),
                     income |-> income,
                     expenses |-> expenses,
                     savings |-> savings,
                     total_expenses |-> total_expenses,
                     balance |-> FloatSub(FloatOfInt(income),
                                          FloatAdd(total_expenses, savings)),
                     analysis |->
                        [housing_percent |-> PercentOf(expenses.housing, income),
                         food_percent |-> PercentOf(expenses.food, income),
                         transport_percent |->
                            PercentOf(expenses.transportation, income),
                         utilities_percent |->
                            PercentOf(expenses.utilities, income),
                         entertainment_percent |->
                            PercentOf(expenses.entertainment, income),
                         savings_percent |-> PercentOf(savings, income),
                         other_percent |-> PercentOf(expenses.other, income)]])
        budget ==
            With(rates, LAMBDA rate :
                With([housing |-> Share(income, rate.housing),
                      food |-> Share(income, rate.food),
                      transportation |-> Share(income, rate.transportation),
                      utilities |-> Share(income, rate.utilities),
                      entertainment |-> Share(income, rate.entertainment),
                      other |-> Share(income, rate.other)],
                     LAMBDA expenses :
                        With(Share(income, rate.savings),
                             LAMBDA savings : Snapshot(expenses, savings))))
        bind == BindError(kwargs, {"income", "save_to_file"}, {})
    IN  IF bind # None THEN bind
        ELSE IF income = 0 THEN Raise("float division by zero")
        ELSE IF save_to_file /\ ~write_ok
        THEN Raise("[Errno 13] Permission denied")
        ELSE IF save_to_file
        THEN Ok(budget @@ [saved_to |-> "data/budget_snapshot.json"])
        ELSE Ok(budget)

RECURSIVE NatToInt(_)
NatToInt(a_) ==
    CHOOSE value \in {(
        IF Len(a) = 0 THEN 0 ELSE Head(a) + LimbBase * NatToInt(Tail(a))
      ) : a \in {a_}} : TRUE

\* the number of tenths nearest to |x|, ties to even
Tenths(x_) ==
    CHOOSE value \in {(
        LET k == 0 - x.e
        IN  With(NatMulSmall(x.m, 10), LAMBDA n :
               IF x.e >= 0 THEN NatToInt(NatShl(n, x.e))
               ELSE With(NatShr(n, k), LAMBDA q :
                    With(NatCmp(NatSub(n, NatShl(q, k)),
                                NatShl(<<1>>, k - 1)), LAMBDA c :
                       IF c > 0 \/ (c = 0 /\ NatIsOdd(q))
                       THEN NatToInt(q) + 1
                       ELSE NatToInt(q))))
      ) : x \in {x_}} : TRUE

\* f"{x:.1f}"
Format1f(x_) ==
    CHOOSE value \in {(
        With(Tenths(x), LAMBDA tenths :
           (IF x.sign < 0 THEN <<"-">> ELSE <<>>)
              \o str(tenths \div 10) \o <<".">> \o str(tenths % 10))
      ) : x \in {x_}} : TRUE

HousingMessage(percent) ==
    <<"Housing costs are ", percent, "% of income, which is above the recommended 30%. Consider finding ways to reduce housing costs.">>
SavingsMessage(percent) ==
    <<"Savings are only ", percent, "% of income, which is below the recommended 20%. Try to increase savings.">>
EntertainmentMessage(percent) ==
    <<"Entertainment expenses are ", percent, "% of income, which is above the recommended 10%. Consider reducing entertainment costs.">>
GeneralRecommendations ==
    << <<"Track your expenses daily to stay within budget.">>,
       <<"Set up automatic transfers to your savings account on payday.">>,
       <<"Review your budget monthly and adjust as needed.">> >>

\* the first key analyze_budget reads that the dictionary lacks, None when
\* there is none
MissingKey(budget) ==
    IF "income" \notin DOMAIN budget THEN "income"
    ELSE IF "total_expenses" \notin DOMAIN budget THEN "total_expenses"
    ELSE IF "savings" \notin DOMAIN budget THEN "savings"
    ELSE IF "balance" \notin DOMAIN budget THEN "balance"
    ELSE IF "analysis" \notin DOMAIN budget THEN "analysis"
    ELSE "<none>"

analyze_budget(kwargs, now) ==
    LET budget == kwargs.budget
        bind == BindError(kwargs, {"budget"}, {"budget"})
        housing_percent == budget.analysis.housing_percent
        savings_percent == budget.analysis.savings_percent
        entertainment_percent == budget.analysis.entertainment_percent
    IN  IF bind # None THEN bind
        ELSE IF MissingKey(budget) # "<none>" THEN Raise(MissingKey(budget))
        ELSE Ok([summary |-> "Budget Analysis",
                 date |-> isoformat(now),
                 income |-> budget.income,
                 total_expenses |-> budget.total_expenses,
                 savings |-> budget.savings,
                 balance |-> budget.balance,
                 recommendations |->
                    (IF FloatGreater(housing_percent, FloatOfInt(30))
                     THEN <<HousingMessage(Format1f(housing_percent))>>
                     ELSE <<>>)
                    \o (IF FloatLess(savings_percent, FloatOfInt(20))
                        THEN <<SavingsMessage(Format1f(savings_percent))>>
                        ELSE <<>>)
                    \o (IF FloatGreater(entertainment_percent, FloatOfInt(10))
                        THEN <<EntertainmentMessage(
                                  Format1f(entertainment_percent))>>
                        ELSE <<>>)
                    \o GeneralRecommendations])

\* range(start, stop)
Range(start, stop) ==
    [k \in 1..(IF stop > start THEN stop - start ELSE 0) |-> start + k - 1]

TaskType_noon_is_deep_work(hour) ==
    IF 8 <= hour /\ hour <= 12 THEN "Deep Work"
    ELSE IF 13 <= hour /\ hour < 16 THEN "Collaboration"
    ELSE "Wrap-up"

TaskType(hour) ==
    IF 8 <= hour /\ hour < 12 THEN "Deep Work"
    ELSE IF hour = 12 THEN "Break"
    ELSE IF 13 <= hour /\ hour < 16 THEN "Collaboration"
    ELSE "Wrap-up"

Priority(hour) ==
    IF 8 <= hour /\ hour < 12 THEN "High"
    ELSE IF hour = 12 THEN "Medium"
    ELSE IF 13 <= hour /\ hour < 16 THEN "Medium"
    ELSE "Low"

\* datetime.time(hour, 0) raises ValueError outside 0..23
ValidHour(hour) == 0 <= hour /\ hour <= 23

create_daily_schedule(kwargs, now, write_ok) ==
    LET start_hour == DictGet(kwargs, "start_hour", 8)
        end_hour == DictGet(kwargs, "end_hour", 18)
        save_to_file == DictGet(kwargs, "save_to_file", TRUE)
        current_date == isoformat(now).day
        hours == Range(start_hour, end_hour)
        time_blocks ==
            [k \in 1..Len(hours) |->
                [start_time |-> [day |-> current_date, hour |-> hours[k],
                                 minute |-> 0],
                 end_time |-> [day |-> current_date, hour |-> hours[k] + 1,
                               minute |-> 0],
                 duration_minutes |-> 60,
                 task_type |-> TaskType(hours[k]),
                 priority |-> Priority(hours[k]),
                 task |-> <<"Scheduled ", TaskType(hours[k]), " time">>]]
        IsDeepWork(block) == block.task_type = "Deep Work"
        IsBreak(block) == block.task_type = "Break"
        schedule ==
            [date |-> current_date,
             created_at |-> isoformat(now),
             start_hour |-> start_hour,
             end_hour |-> end_hour,
             time_blocks |-> time_blocks,
             total_work_hours |-> end_hour - start_hour,
             deep_work_blocks |-> Len(SelectSeq(time_blocks, IsDeepWork)),
             break_blocks |-> Len(SelectSeq(time_blocks, IsBreak))]
        bind == BindError(kwargs, {"start_hour", "end_hour", "save_to_file"}, {})
    IN  IF bind # None THEN bind
        ELSE IF \E k \in 1..Len(hours) :
                   ~ValidHour(hours[k]) \/ ~ValidHour(hours[k] + 1)
        THEN Raise("hour must be in 0..23")
        ELSE IF save_to_file /\ ~write_ok
        THEN Raise("[Errno 13] Permission denied")
        ELSE IF save_to_file
        THEN Ok(schedule @@ [saved_to |-> "data/daily_schedule.json"])
        ELSE Ok(schedule)

set_focus_timer(kwargs, now) ==
    LET minutes == DictGet(kwargs, "minutes", 25)
        task == DictGet(kwargs, "task", "Focus Work")
        bind == BindError(kwargs, {"minutes", "task"}, {})
    IN  IF bind # None THEN bind
        ELSE Ok([task |-> task,
                 start_time |-> isoformat(now),
                 end_time |-> isoformat(now + minutes),
                 duration_minutes |-> minutes,
                 status |-> "running"])

---------------------------------------------------------------------------
(* ai_agent/agent.py: _suggest_automations *)

\* the characters of the summary strings of the templates
Characters ==
    ("Optimize your weekly grocery shopping to save time and money"
        :> <<"O", "p", "t", "i", "m", "i", "z", "e", " ", "y", "o", "u",
             "r", " ", "w", "e", "e", "k", "l", "y", " ", "g", "r", "o",
             "c", "e", "r", "y", " ", "s", "h", "o", "p", "p", "i", "n",
             "g", " ", "t", "o", " ", "s", "a", "v", "e", " ", "t", "i",
             "m", "e", " ", "a", "n", "d", " ", "m", "o", "n", "e", "y">>) @@
    ("Establish an effective morning routine for better daily productivity"
        :> <<"E", "s", "t", "a", "b", "l", "i", "s", "h", " ", "a", "n",
             " ", "e", "f", "f", "e", "c", "t", "i", "v", "e", " ", "m",
             "o", "r", "n", "i", "n", "g", " ", "r", "o", "u", "t", "i",
             "n", "e", " ", "f", "o", "r", " ", "b", "e", "t", "t", "e",
             "r", " ", "d", "a", "i", "l", "y", " ", "p", "r", "o", "d",
             "u", "c", "t", "i", "v", "i", "t", "y">>) @@
    ("Create and maintain a personal monthly budget"
        :> <<"C", "r", "e", "a", "t", "e", " ", "a", "n", "d", " ", "m",
             "a", "i", "n", "t", "a", "i", "n", " ", "a", " ", "p", "e",
             "r", "s", "o", "n", "a", "l", " ", "m", "o", "n", "t", "h",
             "l", "y", " ", "b", "u", "d", "g", "e", "t">>) @@
    ("Solve your daily life problem with a structured approach"
        :> <<"S", "o", "l", "v", "e", " ", "y", "o", "u", "r", " ", "d",
             "a", "i", "l", "y", " ", "l", "i", "f", "e", " ", "p", "r",
             "o", "b", "l", "e", "m", " ", "w", "i", "t", "h", " ", "a",
             " ", "s", "t", "r", "u", "c", "t", "u", "r", "e", "d", " ",
             "a", "p", "p", "r", "o", "a", "c", "h">>)

UpperCase == <<"A", "B", "C", "D", "E", "F", "G", "H", "I", "J", "K", "L", "M",
               "N", "O", "P", "Q", "R", "S", "T", "U", "V", "W", "X", "Y", "Z">>
LowerCase == <<"a", "b", "c", "d", "e", "f", "g", "h", "i", "j", "k", "l", "m",
               "n", "o", "p", "q", "r", "s", "t", "u", "v", "w", "x", "y", "z">>

\* str.lower() on a sequence of characters
lower(text) ==
    [i \in 1..Len(text) |->
        IF \E k \in 1..Len(UpperCase) : UpperCase[k] = text[i]
        THEN LowerCase[CHOOSE k \in 1..Len(UpperCase) : UpperCase[k] = text[i]]
        ELSE text[i]]

\* keyword in text
Contains(text, keyword) ==
    \E i \in 0..(Len(text) - Len(keyword)) :
       SubSeq(text, i + 1, i + Len(keyword)) = keyword

budget_keywords ==
    {<<"b", "u", "d", "g", "e", "t">>, <<"m", "o", "n", "e", "y">>,
     <<"e", "x", "p", "e", "n", "s", "e">>, <<"c", "o", "s", "t">>,
     <<"f", "i", "n", "a", "n", "c", "i", "a", "l">>}
productivity_keywords ==
    {<<"s", "c", "h", "e", "d", "u", "l", "e">>, <<"t", "i", "m", "e">>,
     <<"p", "r", "o", "d", "u", "c", "t", "i", "v", "i", "t", "y">>,
     <<"r", "o", "u", "t", "i", "n", "e">>, <<"o", "r", "g", "a", "n",
     "i", "z", "e">>}

\* any(keyword in plan["summary"].lower() for keyword in budget_keywords),
\* for each summary the templates have
budget_related ==
    [s \in DOMAIN Characters |->
        \E keyword \in budget_keywords :
           Contains(lower(Characters[s]), keyword)]
\* the same for productivity_keywords
productivity_related ==
    [s \in DOMAIN Characters |->
        \E keyword \in productivity_keywords :
           Contains(lower(Characters[s]), keyword)]

suggest_automations_snapshot_twice(plan) ==
    LET summary == plan["summary"]
    IN  (IF budget_related[summary]
         THEN <<[type |-> "budget", script |-> "create_snapshot",
                 description |->
                    "Create a budget snapshot to track your finances",
                 estimated_time_saved |-> "30 minutes"]>>
         ELSE <<>>)
        \o (IF productivity_related[summary]
            THEN <<[type |-> "productivity", script |-> "create_snapshot",
                    description |->
                       "Create a daily schedule to optimize your time",
                    estimated_time_saved |-> "15 minutes daily"]>>
            ELSE <<>>)

\* _suggest_automations(plan)
suggest_automations(plan) ==
    LET summary == plan["summary"]
    IN  (IF budget_related[summary]
         THEN <<[type |-> "budget", script |-> "create_snapshot",
                 description |->
                    "Create a budget snapshot to track your finances",
                 estimated_time_saved |-> "30 minutes"]>>
         ELSE <<>>)
        \o (IF productivity_related[summary]
            THEN <<[type |-> "productivity", script |-> "create_schedule",
                    description |->
                       "Create a daily schedule to optimize your time",
                    estimated_time_saved |-> "15 minutes daily"]>>
            ELSE <<>>)

---------------------------------------------------------------------------
(* ai_agent/agent.py: execute_automation *)

automation_registry ==
    [budget |-> {"create_snapshot", "analyze"},
     productivity |-> {"create_schedule", "focus_timer"}]

\* self.automation_registry[automation_type][script_name](**kwargs)
script_function(automation_type, script_name, kwargs, now, write_ok) ==
    IF script_name = "create_snapshot"
    THEN create_budget_snapshot(kwargs, now, write_ok)
    ELSE IF script_name = "analyze" THEN analyze_budget(kwargs, now)
    ELSE IF script_name = "create_schedule"
    THEN create_daily_schedule(kwargs, now, write_ok)
    ELSE set_focus_timer(kwargs, now)

Registered(automation_type, script_name) ==
    /\ automation_type \in DOMAIN automation_registry
    /\ script_name \in automation_registry[automation_type]

execute_automation_unknown_is_failed(automation_type, script_name, kwargs, now, write_ok) ==
    IF \/ automation_type \notin DOMAIN automation_registry
       \/ script_name \notin automation_registry[automation_type]
    THEN [raised |-> None, invoked |-> <<>>,
          ret |-> [automation_type |-> automation_type,
                   script_name |-> script_name,
                   parameters |-> kwargs,
                   error |-> "Unknown script",
                   status |-> "failed",
                   executed_at |-> isoformat(now)]]
    ELSE With(script_function(automation_type, script_name, kwargs, now,
                              write_ok), LAMBDA result :
         LET call == <<automation_type, script_name>>
         IN  IF result.ok
             THEN [raised |-> None, invoked |-> <<call>>,
                   ret |-> [automation_type |-> automation_type,
                            script_name |-> script_name,
                            parameters |-> kwargs,
                            result |-> result.val,
                            status |-> "success",
                            executed_at |-> isoformat(now)]]
             ELSE [raised |-> None, invoked |-> <<call>>,
                   ret |-> [automation_type |-> automation_type,
                            script_name |-> script_name,
                            parameters |-> kwargs,
                            error |-> result.err,
                            status |-> "failed",
                            executed_at |-> isoformat(now)]])

execute_automation_retried_once(automation_type, script_name, kwargs, now, write_ok) ==
    IF automation_type \notin DOMAIN automation_registry
    THEN [raised |-> Raise("Unknown automation type"), ret |-> None,
          invoked |-> <<>>]
    ELSE IF script_name \notin automation_registry[automation_type]
    THEN [raised |-> Raise("Unknown script"), ret |-> None, invoked |-> <<>>]
    ELSE With(script_function(automation_type, script_name, kwargs, now,
                              write_ok), LAMBDA result :
         LET call == <<automation_type, script_name>>
         IN  IF result.ok
             THEN [raised |-> None, invoked |-> <<call>>,
                   ret |-> [automation_type |-> automation_type,
                            script_name |-> script_name,
                            parameters |-> kwargs,
                            result |-> result.val,
                            status |-> "success",
                            executed_at |-> isoformat(now)]]
             ELSE [raised |-> None, invoked |-> <<call, call>>,
                   ret |-> [automation_type |-> automation_type,
                            script_name |-> script_name,
                            parameters |-> kwargs,
                            error |-> result.err,
                            status |-> "failed",
                            executed_at |-> isoformat(now)]])

\* execute_automation(automation_type, script_name, **kwargs): what it raises
\* (None when it returns), what it returns, and the script calls it made
execute_automation(automation_type, script_name, kwargs, now, write_ok) ==
    IF automation_type \notin DOMAIN automation_registry
    THEN [raised |-> Raise("Unknown automation type"), ret |-> None,
          invoked |-> <<>>]
    ELSE IF script_name \notin automation_registry[automation_type]
    THEN [raised |-> Raise("Unknown script"), ret |-> None, invoked |-> <<>>]
    ELSE With(script_function(automation_type, script_name, kwargs, now,
                              write_ok), LAMBDA result :
         LET call == <<automation_type, script_name>>
         IN  IF result.ok
             THEN [raised |-> None, invoked |-> <<call>>,
                   ret |-> [automation_type |-> automation_type,
                            script_name |-> script_name,
                            parameters |-> kwargs,
                            result |-> result.val,
                            status |-> "success",
                            executed_at |-> isoformat(now)]]
             ELSE [raised |-> None, invoked |-> <<call>>,
                   ret |-> [automation_type |-> automation_type,
                            script_name |-> script_name,
                            parameters |-> kwargs,
                            error |-> result.err,
                            status |-> "failed",
                            executed_at |-> isoformat(now)]])

---------------------------------------------------------------------------
(* backend/models.py: TaskUpdate *)

\* the strings matching ^(pending|in_progress|completed)$
StatusPattern == {"pending", "in_progress", "completed"}

TaskUpdate_unconstrained(status) == Ok([status |-> status])

\* TaskUpdate(status=...): the validated model, or a ValidationError
TaskUpdate(status) ==
    IF status \in StatusPattern THEN Ok([status |-> status])
    ELSE Raise("ValidationError")

---------------------------------------------------------------------------
(* The state machine *)

TM == [tasks |-> tasks, next_id |-> next_id]

\* the values the callers pass
ProblemIdInputs == 1..MaxProblemId
TaskIdInputs == 0..MaxTaskArg
\* the status strings clients send in the body of a task update
RequestedStatusInputs ==
    {"pending", "in_progress", "completed", "done", "Completed", ""}
\* the statuses that reach update_task: the bodies TaskUpdate accepts
StatusInputs == {s \in RequestedStatusInputs : TaskUpdate(s).ok}
\* minutes that pass between two clock reads inside one handler
ElapsedInputs == {0, 1}
PlanIdInputs == {1}
TitleInputs == {"Test Task"}
DueAtInputs == {isoformat(0)}
\* ProblemCreate.category: any string of 3 to 50 characters
CategoryInputs == {"shopping", "SHOPPING", "test"}

\* insert_sample_data: the rows of a fresh problems table, by id
SampleProblems == <<"shopping", "productivity", "finance">>

Init ==
    /\ tasks = TaskManagerInit.tasks
    /\ next_id = TaskManagerInit.next_id
    /\ clock = 0
    /\ SAMPLE_PLANS = SamplePlansTable
    /\ problems = SampleProblems
    /\ remembered = None
    /\ issued = <<>>
    /\ last = [op |-> "init"]
    /\ offset = <<>>
    /\ parsed = None
    /\ request = None
    /\ in_flight = <<>>
    /\ completions = <<>>

\* time passes between two calls
Tick ==
    /\ clock + TickMinutes <= MaxClock
    /\ clock' = clock + TickMinutes
    /\ UNCHANGED <<tasks, next_id, SAMPLE_PLANS, problems, remembered, issued,
                   last, offset, parsed, request, in_flight, completions>>

AddTask(plan_id, title, due_at) ==
    /\ next_id <= MaxId
    /\ LET r == add_task(TM, plan_id, title, due_at)
       IN  /\ tasks' = r.tm.tasks
           /\ next_id' = r.tm.next_id
           /\ issued' = Append(issued, r.ret)
           /\ last' = [op |-> "add_task", ret |-> r.ret]
    /\ UNCHANGED <<clock, SAMPLE_PLANS, problems, remembered, offset, parsed, request, in_flight, completions>>

UpdateCore(task_id, status) ==
    /\ LET r == update_task(TM, task_id, status)
       IN  /\ tasks' = r.tm.tasks
           /\ next_id' = r.tm.next_id
           /\ last' = [op |-> "update_task", ret |-> r.ret]
    /\ UNCHANGED <<clock, SAMPLE_PLANS, problems, remembered, issued, offset,
                   parsed, request, in_flight>>

UpdateTask(task_id, status) ==
    /\ UpdateCore(task_id, status)
    /\ UNCHANGED completions

\* POST /tasks/{id}/complete: update_task(task_id, "completed"); the observer
\* notes the id when the task was not completed before
CompleteTaskLogged(task_id) ==
    /\ UpdateCore(task_id, "completed")
    /\ completions' =
          IF get_task(TM, task_id) # None
             /\ get_task(TM, task_id).status # "completed"
          THEN Append(completions, task_id)
          ELSE completions

GetTask(task_id) ==
    /\ last' = [op |-> "get_task", ret |-> get_task(TM, task_id)]
    /\ UNCHANGED <<tasks, next_id, clock, SAMPLE_PLANS, problems, remembered,
                   issued, offset, parsed, request, in_flight, completions>>

DeleteTask(task_id) ==
    /\ LET r == delete_task(TM, task_id)
       IN  /\ tasks' = r.tm.tasks
           /\ next_id' = r.tm.next_id
           /\ last' = [op |-> "delete_task", ret |-> r.ret]
    /\ UNCHANGED <<clock, SAMPLE_PLANS, problems, remembered, issued, offset,
                   parsed, request, in_flight, completions>>

\* solve_problem(problem_id, auto_create_tasks): generate_plan reads the clock,
\* then _create_tasks_from_plan reads it again, `elapsed` minutes later
SolveCore_consumes_steps(problem_id, auto_create_tasks, elapsed, keep) ==
    LET plan == generate_plan(problem_id)
        base_time == clock + elapsed
        category == DictGet(problem_categories, problem_id, "general")
        key == IF category \in DOMAIN SAMPLE_PLANS THEN category ELSE "general"
        r == IF auto_create_tasks
             THEN create_tasks_from_plan(TM, plan, base_time)
             ELSE [tm |-> TM, tasks |-> <<>>, raised |-> None]
    IN  /\ auto_create_tasks => next_id + Len(plan.steps) - 1 <= MaxId
        /\ ~auto_create_tasks => elapsed = 0
        /\ tasks' = r.tm.tasks
        /\ next_id' = r.tm.next_id
        /\ clock' = base_time
        /\ issued' = issued \o [k \in 1..Len(r.tasks) |-> r.tasks[k].id]
        /\ last' = [op |-> "solve_problem",
                    problem_id |-> problem_id,
                    auto_create_tasks |-> auto_create_tasks,
                    base_time |-> IF auto_create_tasks THEN base_time ELSE None,
                    pre |-> TM,
                    raised |-> r.raised,
                    kept |-> keep,
                    ret |-> [problem_id |-> problem_id, plan |-> plan,
                             tasks |-> r.tasks]]
        /\ SAMPLE_PLANS' = IF auto_create_tasks
                           THEN [SAMPLE_PLANS EXCEPT ![key].steps = <<>>]
                           ELSE SAMPLE_PLANS
        /\ UNCHANGED <<problems, offset, parsed, request, in_flight, completions>>

SolveCore(problem_id, auto_create_tasks, elapsed, keep) ==
    LET plan == generate_plan(problem_id)
        base_time == clock + elapsed
        r == IF auto_create_tasks
             THEN create_tasks_from_plan(TM, plan, base_time)
             ELSE [tm |-> TM, tasks |-> <<>>, raised |-> None]
    IN  /\ auto_create_tasks => next_id + Len(plan.steps) - 1 <= MaxId
        /\ ~auto_create_tasks => elapsed = 0
        /\ tasks' = r.tm.tasks
        /\ next_id' = r.tm.next_id
        /\ clock' = base_time
        /\ issued' = issued \o [k \in 1..Len(r.tasks) |-> r.tasks[k].id]
        /\ last' = [op |-> "solve_problem",
                    problem_id |-> problem_id,
                    auto_create_tasks |-> auto_create_tasks,
                    base_time |-> IF auto_create_tasks THEN base_time ELSE None,
                    pre |-> TM,
                    raised |-> r.raised,
                    kept |-> keep,
                    ret |-> [problem_id |-> problem_id, plan |-> plan,
                             tasks |-> r.tasks]]
        /\ UNCHANGED <<SAMPLE_PLANS, problems, offset, parsed, request, in_flight, completions>>

SolveProblem(problem_id, auto_create_tasks, elapsed) ==
    /\ SolveCore(problem_id, auto_create_tasks, elapsed, FALSE)
    /\ UNCHANGED remembered

\* the same call; the observer may keep what generate_plan returned
SolveProblemLogged(problem_id, auto_create_tasks, elapsed, keep) ==
    /\ SolveCore(problem_id, auto_create_tasks, elapsed, keep)
    /\ remembered' = IF keep
                     THEN [problem_id |-> problem_id,
                           summary |-> last'.ret.plan.summary,
                           steps |-> last'.ret.plan.steps]
                     ELSE remembered

\* POST /problems: a new row of the problems table, its id the next rowid
CreateProblem(category) ==
    /\ Len(problems) < MaxProblems
    /\ problems' = Append(problems, category)
    /\ last' = [op |-> "create_problem", ret |-> Len(problems) + 1]
    /\ UNCHANGED <<tasks, next_id, clock, SAMPLE_PLANS, remembered, issued,
                   offset, parsed, request, in_flight, completions>>

\* execute_automation(automation_type, script_name, **kwargs)
ExecuteAutomation(automation_type, script_name, kwargs, write_ok) ==
    /\ \E r \in {execute_automation(automation_type, script_name, kwargs,
                                     clock, write_ok)} :
           last' = [op |-> "execute_automation",
                    automation_type |-> automation_type,
                    script_name |-> script_name,
                    parameters |-> kwargs,
                    now |-> clock,
                    write_ok |-> write_ok,
                    raised |-> r.raised,
                    ret |-> r.ret,
                    invoked |-> r.invoked]
    /\ UNCHANGED <<tasks, next_id, clock, SAMPLE_PLANS, problems, remembered,
                   issued, offset, parsed, request, in_flight, completions>>

GetUserDashboard ==
    /\ LET r == get_user_dashboard_call(TM, clock)
       IN  /\ tasks' = r.tm.tasks
           /\ next_id' = r.tm.next_id
           /\ last' = [op |-> "get_user_dashboard", now |-> clock,
                       ret |-> r.ret]
    /\ UNCHANGED <<clock, SAMPLE_PLANS, problems, remembered, issued, offset,
                   parsed, request, in_flight, completions>>

Next ==
    \/ Tick
    \/ \E p \in PlanIdInputs, t \in TitleInputs, d \in DueAtInputs : AddTask(p, t, d)
    \/ \E i \in TaskIdInputs, s \in StatusInputs : UpdateTask(i, s)
    \/ \E i \in TaskIdInputs : DeleteTask(i)
    \/ \E i \in TaskIdInputs : GetTask(i)
    \/ \E p \in ProblemIdInputs, a \in BOOLEAN, e \in ElapsedInputs :
          SolveProblem(p, a, e)
    \/ GetUserDashboard

Spec == Init /\ [][Next]_vars

\* plan generation observed: one earlier plan is kept for comparison
NextPlans ==
    \/ Tick
    \/ \E p \in ProblemIdInputs, a \in BOOLEAN, e \in ElapsedInputs, k \in BOOLEAN :
          SolveProblemLogged(p, a, e, k)
    \/ \E i \in TaskIdInputs, s \in StatusInputs : UpdateTask(i, s)
    \/ \E i \in TaskIdInputs : DeleteTask(i)
    \/ GetUserDashboard

SpecPlans == Init /\ [][NextPlans]_vars

\* plans of the problems in the problems table
NextProblems ==
    \/ Tick
    \/ \E c \in CategoryInputs : CreateProblem(c)
    \/ \E p \in ProblemIdInputs, a \in BOOLEAN, e \in ElapsedInputs, k \in BOOLEAN :
          SolveProblemLogged(p, a, e, k)

SpecProblems == Init /\ [][NextProblems]_vars

\* completions observed in the order they happen
CompletedIdInputs == 1..MaxCompleted

NextCompletions ==
    \/ \E p \in PlanIdInputs, t \in TitleInputs, d \in DueAtInputs : AddTask(p, t, d)
    \/ \E i \in CompletedIdInputs : CompleteTaskLogged(i)
    \/ GetUserDashboard

SpecCompletions == Init /\ [][NextCompletions]_vars

---------------------------------------------------------------------------
(* get_user_dashboard on stores around the many-pending threshold *)

RECURSIVE StoreOf(_)
\* the task manager after n calls of add_task
StoreOf(n) ==
    IF n = 0 THEN TaskManagerInit
    ELSE add_task(StoreOf(n - 1), 1, "Test Task", isoformat(0)).tm

InitDashboard ==
    /\ \E n \in 0..MaxStore :
          /\ tasks = StoreOf(n).tasks
          /\ next_id = StoreOf(n).next_id
          /\ issued = [k \in 1..n |-> k]
    /\ clock = 0
    /\ SAMPLE_PLANS = SamplePlansTable
    /\ problems = SampleProblems
    /\ remembered = None
    /\ last = [op |-> "init"]
    /\ offset = <<>>
    /\ parsed = None
    /\ request = None
    /\ in_flight = <<>>
    /\ completions = <<>>

NextDashboard ==
    \/ Tick
    \/ \E i \in TaskIdInputs, s \in StatusInputs : UpdateTask(i, s)
    \/ \E i \in TaskIdInputs : DeleteTask(i)
    \/ GetUserDashboard

SpecDashboard == InitDashboard /\ [][NextDashboard]_vars

---------------------------------------------------------------------------
(* execute_automation on its own *)

AutomationTypeInputs == {"budget", "productivity", "health"}
ScriptNameInputs ==
    {"create_snapshot", "analyze", "create_schedule", "focus_timer",
     "open_tools"}

\* the snapshot of the default income, as analyze_budget is handed it
SampleBudget ==
    create_budget_snapshot([income |-> 3000, save_to_file |-> FALSE], 0, TRUE).val

KwargsInputs ==
    {NoKwargs,
     [income |-> 4000, save_to_file |-> FALSE],
     [income |-> 0, save_to_file |-> FALSE],
     [income |-> 3000],
     [budget |-> SampleBudget],
     [budget |-> [income |-> 3000]],
     [start_hour |-> 9, end_hour |-> 17, save_to_file |-> FALSE],
     [start_hour |-> 20, end_hour |-> 24, save_to_file |-> FALSE],
     [minutes |-> 25, task |-> "Test Task"]}

\* the calls of execute_automation under study
AutomationRequests ==
    [automation_type : AutomationTypeInputs, script_name : ScriptNameInputs,
     parameters : KwargsInputs, write_ok : BOOLEAN]

InitAutomation ==
    /\ tasks = TaskManagerInit.tasks
    /\ next_id = TaskManagerInit.next_id
    /\ clock = 0
    /\ SAMPLE_PLANS = SamplePlansTable
    /\ problems = SampleProblems
    /\ remembered = None
    /\ issued = <<>>
    /\ last = [op |-> "init"]
    /\ offset = <<>>
    /\ parsed = None
    /\ request \in AutomationRequests
    /\ in_flight = <<>>
    /\ completions = <<>>

\* the call under study is made
ExecuteRequested ==
    /\ last.op = "init"
    /\ ExecuteAutomation(request.automation_type, request.script_name,
                         request.parameters, request.write_ok)

NextAutomation ==
    \/ Tick
    \/ ExecuteRequested

SpecAutomation == InitAutomation /\ [][NextAutomation]_vars

---------------------------------------------------------------------------
(* The budget scripts on their own: a snapshot of one income and its
   analysis, or the analysis of a budget written by hand *)

IncomeInputs == 1..MaxIncome

\* a budget dictionary with the given three percentages
BudgetWith(housing, savings, entertainment) ==
    [income |-> 1000,
     total_expenses |-> FloatOfInt(800),
     savings |-> FloatOfInt(200),
     balance |-> FloatZero,
     analysis |-> [housing_percent |-> FloatOfInt(housing),
                   savings_percent |-> FloatOfInt(savings),
                   entertainment_percent |-> FloatOfInt(entertainment)]]

BudgetRequests ==
    {[income |-> i] : i \in IncomeInputs}
       \cup {[budget |-> BudgetWith(h, s, e)] :
                h \in {29, 30, 31}, s \in {19, 20, 21}, e \in {9, 10, 11}}

InitBudget ==
    /\ tasks = TaskManagerInit.tasks
    /\ next_id = TaskManagerInit.next_id
    /\ clock = 0
    /\ SAMPLE_PLANS = SamplePlansTable
    /\ problems = SampleProblems
    /\ remembered = None
    /\ issued = <<>>
    /\ last = [op |-> "init"]
    /\ offset = <<>>
    /\ parsed = None
    /\ request \in BudgetRequests
    /\ in_flight = <<>>
    /\ completions = <<>>

\* create_budget_snapshot(income=..., save_to_file=False)
CreateBudgetSnapshot ==
    /\ last.op = "init"
    /\ "income" \in DOMAIN request
    /\ last' = [op |-> "create_budget_snapshot",
                income |-> request.income,
                ret |-> create_budget_snapshot(
                           [income |-> request.income, save_to_file |-> FALSE],
                           clock, TRUE)]
    /\ UNCHANGED <<tasks, next_id, clock, SAMPLE_PLANS, problems, remembered,
                   issued, offset, parsed, request, in_flight, completions>>

\* analyze_budget(budget) of the snapshot just made or of the handmade budget
AnalyzeBudget ==
    /\ \/ last.op = "create_budget_snapshot" /\ last.ret.ok
       \/ last.op = "init" /\ "budget" \in DOMAIN request
    /\ LET budget == IF last.op = "init" THEN request.budget ELSE last.ret.val
       IN  last' = [op |-> "analyze_budget",
                    budget |-> budget,
                    of_snapshot |-> (last.op # "init"),
                    ret |-> analyze_budget([budget |-> budget], clock)]
    /\ UNCHANGED <<tasks, next_id, clock, SAMPLE_PLANS, problems, remembered,
                   issued, offset, parsed, request, in_flight, completions>>

NextBudget == CreateBudgetSnapshot \/ AnalyzeBudget

SpecBudget == InitBudget /\ [][NextBudget]_vars

---------------------------------------------------------------------------
(* Two callers of add_task on one store, statement by statement: the store
   has no lock, so the statements of the two calls interleave freely *)

Callers == {"a", "b"}

Idle == [pc |-> "idle"]

InitThreads ==
    /\ \E n \in 0..MaxEarlier :
          /\ tasks = StoreOf(n).tasks
          /\ next_id = StoreOf(n).next_id
          /\ issued = [k \in 1..n |-> k]
    /\ clock = 0
    /\ SAMPLE_PLANS = SamplePlansTable
    /\ problems = SampleProblems
    /\ remembered = None
    /\ last = [op |-> "init"]
    /\ offset = <<>>
    /\ parsed = None
    /\ request = None
    /\ in_flight = [c \in Callers |-> Idle]
    /\ completions = <<>>

\* a call that has read next_id and not yet written it back
Between(call) == call.pc \in {"built", "appended", "loaded"}

\* task = {"id": self.next_id, ...}
BuildTask(c, plan_id, title, due_at) ==
    /\ in_flight[c].pc = "idle"
    /\ in_flight' =
          [in_flight EXCEPT ![c] =
              [pc |-> "built",
               task |-> new_task(TM, plan_id, title, due_at),
               interleaved |-> \E d \in Callers \ {c} : Between(in_flight[d])]]
    /\ UNCHANGED <<tasks, next_id, clock, SAMPLE_PLANS, problems, remembered,
                   issued, last, offset, parsed, request, completions>>

\* self.tasks.append(task)
AppendTask(c) ==
    /\ in_flight[c].pc = "built"
    /\ tasks' = Append(tasks, in_flight[c].task)
    /\ in_flight' = [in_flight EXCEPT ![c].pc = "appended"]
    /\ UNCHANGED <<next_id, clock, SAMPLE_PLANS, problems, remembered,
                   issued, last, offset, parsed, request, completions>>

\* self.next_id += 1: the attribute is read ...
LoadNextId(c) ==
    /\ in_flight[c].pc = "appended"
    /\ in_flight' =
          [in_flight EXCEPT ![c] =
              [pc |-> "loaded", task |-> in_flight[c].task,
               interleaved |-> in_flight[c].interleaved,
               loaded |-> next_id]]
    /\ UNCHANGED <<tasks, next_id, clock, SAMPLE_PLANS, problems, remembered,
                   issued, last, offset, parsed, request, completions>>

\* ... and written back one larger
StoreNextId(c) ==
    /\ in_flight[c].pc = "loaded"
    /\ next_id' = in_flight[c].loaded + 1
    /\ in_flight' = [in_flight EXCEPT ![c].pc = "stored"]
    /\ UNCHANGED <<tasks, clock, SAMPLE_PLANS, problems, remembered,
                   issued, last, offset, parsed, request, completions>>

\* return task["id"]
ReturnId(c) ==
    /\ in_flight[c].pc = "stored"
    /\ in_flight' = [in_flight EXCEPT ![c].pc = "returned"]
    /\ issued' = Append(issued, in_flight[c].task.id)
    /\ last' = [op |-> "add_task", ret |-> in_flight[c].task.id]
    /\ UNCHANGED <<tasks, next_id, clock, SAMPLE_PLANS, problems, remembered,
                   offset, parsed, request, completions>>

NextThreads ==
    \E c \in Callers :
       \/ \E p \in PlanIdInputs, t \in TitleInputs, d \in DueAtInputs :
             BuildTask(c, p, t, d)
       \/ AppendTask(c)
       \/ LoadNextId(c)
       \/ StoreNextId(c)
       \/ ReturnId(c)

SpecThreads == InitThreads /\ [][NextThreads]_vars

---------------------------------------------------------------------------
(* solve_problem with its automation suggestions, and the suggestions passed
   on to execute_automation *)

\* solve_problem: the plan and the suggestions it returned are kept
SolveProblemSuggested(problem_id, auto_create_tasks, elapsed) ==
    /\ SolveCore(problem_id, auto_create_tasks, elapsed, TRUE)
    /\ remembered' = [problem_id |-> problem_id,
                      summary |-> last'.ret.plan.summary,
                      steps |-> last'.ret.plan.steps,
                      automation_suggestions |->
                         suggest_automations(last'.ret.plan)]

\* execute_automation(suggestion["type"], suggestion["script"])
ExecuteSuggestion(k, write_ok) ==
    /\ remembered # None
    /\ k \in 1..Len(remembered.automation_suggestions)
    /\ ExecuteAutomation(remembered.automation_suggestions[k].type,
                         remembered.automation_suggestions[k].script,
                         NoKwargs, write_ok)

NextSuggest ==
    \/ Tick
    \/ \E p \in ProblemIdInputs, a \in BOOLEAN, e \in ElapsedInputs :
          SolveProblemSuggested(p, a, e)
    \/ \E k \in 1..2, w \in BOOLEAN : ExecuteSuggestion(k, w)

SpecSuggest == Init /\ [][NextSuggest]_vars

---------------------------------------------------------------------------
(* Plans of several problems materialized into one store, and the store
   asked for the tasks of a plan *)

\* the plan ids callers ask get_tasks_by_plan for
AskedPlanIdInputs == 0..2

\* solve_problem(problem_id): auto_create_tasks has its default, True
SolveAndMaterialize(problem_id, elapsed) ==
    LET plan == generate_plan(problem_id)
        base_time == clock + elapsed
        r == create_tasks_from_plan(TM, plan, base_time)
    IN  /\ next_id + Len(plan.steps) - 1 <= MaxBatchId
        /\ tasks' = r.tm.tasks
        /\ next_id' = r.tm.next_id
        /\ clock' = base_time
        /\ issued' = issued \o [k \in 1..Len(r.tasks) |-> r.tasks[k].id]
        /\ last' = [op |-> "solve_problem",
                    problem_id |-> problem_id,
                    auto_create_tasks |-> TRUE,
                    base_time |-> base_time,
                    pre |-> TM,
                    raised |-> r.raised,
                    kept |-> FALSE,
                    ret |-> [problem_id |-> problem_id, plan |-> plan,
                             tasks |-> r.tasks]]
        /\ UNCHANGED <<SAMPLE_PLANS, problems, remembered, offset, parsed,
                       request, in_flight, completions>>

GetTasksByPlan(plan_id) ==
    /\ last' = [op |-> "get_tasks_by_plan", plan_id |-> plan_id,
                ret |-> get_tasks_by_plan(TM, plan_id)]
    /\ UNCHANGED <<tasks, next_id, clock, SAMPLE_PLANS, problems, remembered,
                   issued, offset, parsed, request, in_flight, completions>>

NextByPlan ==
    \/ Tick
    \/ \E p \in ProblemIdInputs, e \in ElapsedInputs : SolveAndMaterialize(p, e)
    \/ \E q \in AskedPlanIdInputs : GetTasksByPlan(q)

SpecByPlan == Init /\ [][NextByPlan]_vars

---------------------------------------------------------------------------
(* The schedule script on its own: one call for each pair of hours *)

HourInputs == 0..MaxHour

ScheduleRequests ==
    [start_hour : HourInputs, end_hour : HourInputs, save_to_file : BOOLEAN]

InitSchedule ==
    /\ tasks = TaskManagerInit.tasks
    /\ next_id = TaskManagerInit.next_id
    /\ clock = 0
    /\ SAMPLE_PLANS = SamplePlansTable
    /\ problems = SampleProblems
    /\ remembered = None
    /\ issued = <<>>
    /\ last = [op |-> "init"]
    /\ offset = <<>>
    /\ parsed = None
    /\ request \in ScheduleRequests
    /\ in_flight = <<>>
    /\ completions = <<>>

\* create_daily_schedule(start_hour, end_hour, save_to_file)
CreateDailySchedule ==
    /\ last.op = "init"
    /\ last' = [op |-> "create_daily_schedule",
                start_hour |-> request.start_hour,
                end_hour |-> request.end_hour,
                ret |-> create_daily_schedule(request, clock, TRUE)]
    /\ UNCHANGED <<tasks, next_id, clock, SAMPLE_PLANS, problems, remembered,
                   issued, offset, parsed, request, in_flight, completions>>

NextSchedule == CreateDailySchedule

SpecSchedule == InitSchedule /\ [][NextSchedule]_vars

---------------------------------------------------------------------------
(* parse_due_offset on its own *)

UnitInputs == {<<"h">>, <<"d">>, <<"w">>, <<"m">>, <<>>}
OffsetInputs ==
    {str(n) \o u : n \in (0 - MaxN)..MaxN, u \in UnitInputs} \cup {<<>>, <<"h">>}

InitParse ==
    /\ tasks = TaskManagerInit.tasks
    /\ next_id = TaskManagerInit.next_id
    /\ clock = 0
    /\ SAMPLE_PLANS = SamplePlansTable
    /\ problems = SampleProblems
    /\ remembered = None
    /\ issued = <<>>
    /\ last = [op |-> "init"]
    /\ offset \in OffsetInputs
    /\ parsed = None
    /\ request = None
    /\ in_flight = <<>>
    /\ completions = <<>>

ParseDueOffset ==
    /\ parsed = None
    /\ parsed' = parse_due_offset(offset)
    /\ last' = [op |-> "parse_due_offset"]
    /\ UNCHANGED <<tasks, next_id, clock, SAMPLE_PLANS, problems, remembered,
                   issued, offset, request, in_flight, completions>>

NextOffset ==
    /\ parsed # None
    /\ offset' \in OffsetInputs
    /\ parsed' = None
    /\ UNCHANGED <<tasks, next_id, clock, SAMPLE_PLANS, problems, remembered,
                   issued, last, request, in_flight, completions>>

NextParse == ParseDueOffset \/ NextOffset

SpecParse == InitParse /\ [][NextParse]_vars

---------------------------------------------------------------------------
(* Properties *)

Solved == last.op = "solve_problem"
Materialized == Solved /\ last.auto_create_tasks

\* C1: in every plan-to-task conversion the due timestamp of the task made
\* from step k is the one instant read at task creation plus the parsed
\* offset of step k, in minutes; for the offsets 0h, 1h, 2h of the shopping
\* plan that is 0, 60 and 120 minutes after that instant.
DueIsBatchInstantPlusOffset ==
    Materialized =>
        LET steps == last.ret.plan.steps
            batch == last.ret.tasks
            Due(k) == fromisoformat(batch[k].due_at)
        IN  /\ Len(batch) = Len(steps)
            /\ \A k \in 1..Len(steps) :
                  LET minutes == parse_due_offset(steps[k].due_offset)
                  IN  minutes.ok /\ Due(k) = last.base_time + minutes.val
            /\ last.problem_id = 1 =>
                  /\ Due(1) = last.base_time
                  /\ Due(2) = last.base_time + 60
                  /\ Due(3) = last.base_time + 120

\* a shopping plan was materialized and the plan was generated at another
\* instant than the one the batch was created at
BatchAfterPlanInstant ==
    /\ Materialized
    /\ last.problem_id = 1
    /\ fromisoformat(last.ret.plan.generated_at) # last.base_time

\* C2: materializing a plan with n steps appends exactly n tasks to the
\* store, the k-th with the title of step k, the plan's plan_id and status
\* pending, and leaves the tasks that were in the store as they were.
BatchIsOnePendingTaskPerStep ==
    Materialized =>
        LET steps == last.ret.plan.steps
            batch == last.ret.tasks
        IN  /\ Len(batch) = Len(steps)
            /\ tasks = last.pre.tasks \o batch
            /\ next_id = last.pre.next_id + Len(steps)
            /\ \A k \in 1..Len(steps) :
                  /\ batch[k].title = steps[k].title
                  /\ batch[k].plan_id = last.ret.plan.plan_id
                  /\ batch[k].status = "pending"

\* a plan was materialized into a store that already held a task
BatchIntoNonEmptyStore ==
    /\ Materialized
    /\ Len(last.pre.tasks) > 0
    /\ Len(last.ret.tasks) = 6

\* C3: the ids add_task returns are strictly increasing over the life of the
\* store, the first being 1, whatever was updated or deleted in between; no
\* two tasks of the store share an id.
IdsNeverReused ==
    /\ \A i, j \in 1..Len(issued) : i < j => issued[i] < issued[j]
    /\ Len(issued) > 0 => issued[1] = 1
    /\ \A i, j \in 1..Len(tasks) : i # j => tasks[i].id # tasks[j].id
    /\ \A i \in 1..Len(tasks) : \E k \in 1..Len(issued) : issued[k] = tasks[i].id

\* add_task has just returned an id in a store from which a task was deleted
AddAfterDelete ==
    /\ last.op = "add_task"
    /\ Len(tasks) < Len(issued)
    /\ last.ret = issued[Len(issued)]
    /\ Len(issued) >= 2

PendingOverdueAt(now) ==
    {i \in 1..Len(tasks) :
        /\ tasks[i].status = "pending"
        /\ (tasks[i].due_at.day * 1440 + tasks[i].due_at.hour * 60
            + tasks[i].due_at.minute) < now}

\* C4: the overdue_tasks count of the dashboard is the number of pending
\* tasks due strictly before the evaluation instant, in every state of the
\* store and for the dashboard last returned.
OverdueCountsPendingPastDue ==
    /\ get_user_dashboard(TM, clock).task_summary.overdue_tasks
          = Cardinality(PendingOverdueAt(clock))
    /\ last.op = "get_user_dashboard" =>
          last.ret.task_summary.overdue_tasks
             = Cardinality(PendingOverdueAt(last.now))

\* a dashboard read with a pending task past due, a pending task due at the
\* very evaluation instant and a task past due that is no longer pending
DashboardWithBoundaryCases ==
    /\ last.op = "get_user_dashboard"
    /\ last.now = clock
    /\ last.ret.task_summary.overdue_tasks >= 1
    /\ \E i \in 1..Len(tasks) :
          tasks[i].status = "pending" /\ fromisoformat(tasks[i].due_at) = clock
    /\ \E i \in 1..Len(tasks) :
          tasks[i].status # "pending" /\ fromisoformat(tasks[i].due_at) < clock

\* C5: for every integer n, parse_due_offset of the decimal form of n
\* followed by h, d or w is n*60, n*1440 and n*10080.
ParseScalesByUnit ==
    parsed # None =>
        \A n \in (0 - MaxN)..MaxN :
            /\ offset = str(n) \o <<"h">> => parsed = Ok(n * 60)
            /\ offset = str(n) \o <<"d">> => parsed = Ok(n * 1440)
            /\ offset = str(n) \o <<"w">> => parsed = Ok(n * 10080)

\* "12d" has been parsed
ParsedTwelveDays == offset = <<"1", "2", "d">> /\ parsed = Ok(17280)

\* C6: for an offset whose last character is not h, d or w nothing is
\* stripped: the whole string is parsed as a number of minutes.
WholeStringIsMinutesWithoutUnit ==
    (/\ parsed # None
     /\ Len(offset) > 0
     /\ offset[Len(offset)] \notin {"h", "d", "w"})
        => parsed = int(offset)

UnitFactor(unit) ==
    IF unit = "h" THEN 60 ELSE IF unit = "d" THEN 1440
    ELSE IF unit = "w" THEN 10080 ELSE 1

\* C7: the last character is always taken as the unit and the characters
\* before it as the number, so a string of digits only loses its last digit
\* ("30" gives 3, "-30" gives -3) and a single digit leaves no number to parse.
LastCharacterIsAlwaysTheUnit ==
    parsed # None =>
        /\ offset = <<"3", "0">> => parsed = Ok(3)
        /\ \A n \in 10..MaxN :
              /\ offset = str(n) => parsed = Ok(n \div 10)
              /\ offset = str(0 - n) => parsed = Ok(0 - (n \div 10))
        /\ \A n \in 0..9 : offset = str(n) => parsed = Raise("ValueError")
        /\ Len(offset) > 0 =>
              LET number == int(SubSeq(offset, 1, Len(offset) - 1))
              IN  /\ parsed.ok = number.ok
                  /\ parsed.ok =>
                        parsed.val = number.val * UnitFactor(offset[Len(offset)])

\* "30" has been parsed
ParsedBareThirty == offset = <<"3", "0">> /\ parsed = Ok(3)

\* C8: a plan generated for a problem has the summary and the steps of any
\* plan generated for the same problem earlier, whatever was done in between.
SameProblemSamePlan ==
    (/\ Solved
     /\ remembered # None
     /\ remembered.problem_id = last.problem_id)
        => /\ last.ret.plan.summary = remembered.summary
           /\ last.ret.plan.steps = remembered.steps

\* a second plan for a problem, generated at a later instant than the plan
\* that was kept and with materialized tasks in the store
SecondPlanForSameProblem ==
    /\ Solved
    /\ ~last.kept
    /\ remembered # None
    /\ remembered.problem_id = last.problem_id
    /\ fromisoformat(last.ret.plan.generated_at) >= TickMinutes
    /\ Len(last.pre.tasks) > 0
    /\ last.pre.tasks[1].status = "completed"

\* C9: a problem id without a category mapping gets the summary and the
\* steps of the general template.
UnknownProblemGetsGeneralPlan ==
    (Solved /\ last.problem_id \notin {1, 2, 3, 4}) =>
        /\ last.ret.plan.summary
              = "Solve your daily life problem with a structured approach"
        /\ last.ret.plan.steps = SamplePlansTable["general"]["steps"]
        /\ last.ret.plan.steps[1].title = "Define the problem clearly"
        /\ Len(last.ret.plan.steps) = 6

\* a plan has been generated for problem 5, which has no mapping
SolvedUnmappedProblem == Solved /\ last.problem_id = 5

\* str.lower() on the categories that occur
CategoryLower(c) == IF c = "SHOPPING" THEN "shopping" ELSE c

\* C10: two problems of the problems table whose categories differ at most
\* in letter case get plans with the same summary and the same steps.
SameCategorySamePlan ==
    (/\ Solved
     /\ remembered # None
     /\ last.problem_id \in DOMAIN problems
     /\ remembered.problem_id \in DOMAIN problems
     /\ CategoryLower(problems[last.problem_id])
           = CategoryLower(problems[remembered.problem_id]))
        => /\ last.ret.plan.summary = remembered.summary
           /\ last.ret.plan.steps = remembered.steps

---------------------------------------------------------------------------
(* Task store *)

UpdateChangesOnlyTheStatus ==
    [][\A id \in TaskIdInputs, s \in StatusInputs :
          (/\ last'.op = "update_task"
           /\ UpdateTask(id, s)
           /\ \E k \in 1..Len(tasks) : tasks[k].id = id)
             => /\ Len(tasks') = Len(tasks)
                /\ \A j \in 1..Len(tasks) :
                      /\ DOMAIN tasks'[j] = DOMAIN tasks[j]
                      /\ tasks'[j].id = tasks[j].id
                      /\ tasks'[j].plan_id = tasks[j].plan_id
                      /\ tasks'[j].title = tasks[j].title
                      /\ tasks'[j].due_at = tasks[j].due_at
                      /\ tasks'[j].status =
                            IF tasks[j].id = id THEN s ELSE tasks[j].status
                /\ next_id' = next_id
                /\ last'.ret \in {tasks'[j] : j \in 1..Len(tasks)}
                /\ last'.ret.id = id]_vars

\* the first of several tasks has been set to in_progress
UpdatedFirstOfSeveral ==
    /\ last.op = "update_task"
    /\ Len(tasks) >= 2
    /\ last.ret = tasks[1]
    /\ last.ret.status = "in_progress"
    /\ tasks[2].status = "pending"

\* C13: a task stays in the store until delete_task is called with its id,
\* whatever else is called; delete_task(id) on a task that exists removes
\* exactly that task, returns True and leaves the other tasks and the id
\* counter as they were.
TasksStayUntilDeleted ==
    [][/\ \A k \in 1..Len(tasks) :
             \/ \E j \in 1..Len(tasks') : tasks'[j].id = tasks[k].id
             \/ last'.op = "delete_task" /\ DeleteTask(tasks[k].id)
       /\ \A id \in TaskIdInputs :
             (/\ last'.op = "delete_task"
              /\ DeleteTask(id)
              /\ \E k \in 1..Len(tasks) : tasks[k].id = id)
                => /\ last'.ret = TRUE
                   /\ tasks' = SelectSeq(tasks, LAMBDA t : t.id # id)
                   /\ next_id' = next_id]_vars

\* one of several tasks has been deleted, the others are still there
DeletedOneOfSeveral ==
    /\ last.op = "delete_task"
    /\ last.ret = TRUE
    /\ Len(tasks) >= 2
    /\ Len(issued) = Len(tasks) + 1

---------------------------------------------------------------------------
(* Dashboard *)

DueMinutes(t) == fromisoformat(t.due_at)
PendingPositions == {i \in 1..Len(tasks) : tasks[i].status = "pending"}

\* C14: the dashboard's upcoming_tasks are the five pending tasks with the
\* earliest due timestamps (all of them when there are fewer than five), in
\* ascending order of due timestamp; no in_progress or completed task is
\* among them.
UpcomingAreFiveSoonestPending ==
    LET up == get_user_dashboard(TM, clock).upcoming_tasks
        Listed == {up[k].id : k \in 1..Len(up)}
    IN  /\ Len(up) = IF Cardinality(PendingPositions) < 5
                     THEN Cardinality(PendingPositions) ELSE 5
        /\ \A k \in 1..Len(up) :
              /\ up[k].status = "pending"
              /\ \E i \in PendingPositions : tasks[i] = up[k]
        /\ Cardinality(Listed) = Len(up)
        /\ \A k \in 1..(Len(up) - 1) : DueMinutes(up[k]) <= DueMinutes(up[k + 1])
        /\ \A i \in PendingPositions :
              tasks[i].id \notin Listed
                 => \A k \in 1..Len(up) : DueMinutes(up[k]) <= DueMinutes(tasks[i])

\* a dashboard of a store with more than five pending tasks, not in the
\* order of their due timestamps, and a task that is not pending
UpcomingCutAndReordered ==
    /\ last.op = "get_user_dashboard"
    /\ last.ret = get_user_dashboard(TM, clock)
    /\ Cardinality(PendingPositions) > 5
    /\ last.ret.upcoming_tasks # Take(SelectSeq(tasks, IsPending), 5)
    /\ \E i \in 1..Len(tasks) : tasks[i].status # "pending"

Reverse(l) == [k \in 1..Len(l) |-> l[Len(l) + 1 - k]]

\* C15: the dashboard's recent_completions are the (up to three) tasks whose
\* completion happened last, the most recent first.
RecentCompletionsAreLatestThree ==
    last.op = "get_user_dashboard"
       => LET rc == last.ret.recent_completions
          IN  [k \in 1..Len(rc) |-> rc[k].id] = Take(Reverse(completions), 3)

\* C16: get_user_dashboard leaves the task store (the tasks, their fields,
\* their order) and the id counter as they were, and a second call at the
\* same instant with nothing in between gives the same dashboard.
DashboardIsReadOnly ==
    [][last'.op = "get_user_dashboard"
          => /\ tasks' = tasks
             /\ next_id' = next_id
             /\ get_user_dashboard_call(
                    [tasks |-> tasks', next_id |-> next_id'], last'.now).ret
                   = last'.ret]_vars

\* a dashboard of a store that is not in due order and holds completed and
\* pending tasks
DashboardOfUnsortedStore ==
    /\ last.op = "get_user_dashboard"
    /\ tasks # SortedByDue(tasks)
    /\ \E i \in 1..Len(tasks) : tasks[i].status = "completed"
    /\ \E i \in 1..Len(tasks) : tasks[i].status = "pending"

PendingOverdueCount(now) ==
    Cardinality({i \in PendingPositions : DueMinutes(tasks[i]) < now})

\* C17: the recommendations hold the overdue message exactly when the overdue
\* count is greater than 0, the many-pending message exactly when more than
\* 10 tasks are pending, the no-pending message exactly when none is, and
\* nothing else; many-pending and no-pending never appear together.
RecommendationsFollowThresholds ==
    last.op = "get_user_dashboard"
       => LET rec == last.ret.recommendations
              pending == Cardinality(PendingPositions)
              overdue == PendingOverdueCount(last.now)
              Has(msg) == \E k \in 1..Len(rec) : rec[k] = msg
              Count(b) == IF b THEN 1 ELSE 0
          IN  /\ Has(OverdueMessage(overdue)) <=> overdue > 0
              /\ Has(ManyPendingMessage) <=> pending > 10
              /\ Has(NoPendingMessage) <=> pending = 0
              /\ \A k \in 1..Len(rec) :
                    rec[k] \in {OverdueMessage(overdue), ManyPendingMessage,
                                NoPendingMessage}
              /\ Len(rec) = Count(overdue > 0) + Count(pending > 10)
                               + Count(pending = 0)
              /\ ~(Has(ManyPendingMessage) /\ Has(NoPendingMessage))

\* a dashboard of eleven pending tasks, all overdue
DashboardOfElevenPending ==
    /\ last.op = "get_user_dashboard"
    /\ Cardinality(PendingPositions) = 11
    /\ last.ret.task_summary.overdue_tasks = 11
    /\ Len(last.ret.recommendations) = 2

StatusCount(status) ==
    Cardinality({i \in 1..Len(tasks) : tasks[i].status = status})

UnknownIdIsNotFound ==
    [][\A id \in TaskIdInputs :
          (\A k \in 1..Len(tasks) : tasks[k].id # id)
             => /\ (last'.op = "get_task" /\ GetTask(id))
                      => /\ last'.ret = None
                         /\ tasks' = tasks
                         /\ next_id' = next_id
                /\ \A s \in StatusInputs :
                      (last'.op = "update_task" /\ UpdateTask(id, s))
                         => /\ last'.ret = None
                            /\ tasks' = tasks
                            /\ next_id' = next_id
                /\ (last'.op = "delete_task" /\ DeleteTask(id))
                      => /\ last'.ret = FALSE
                         /\ tasks' = tasks
                         /\ next_id' = next_id]_vars

\* delete_task has answered False in a store that holds tasks and has lost
\* one
DeleteOfMissingId ==
    /\ last.op = "delete_task"
    /\ last.ret = FALSE
    /\ Len(tasks) >= 1
    /\ Len(issued) > Len(tasks)

---------------------------------------------------------------------------
(* Automation *)

\* C20: when the registered script raises, execute_automation does not
\* raise: it returns a record with status "failed", the error text, the
\* automation type, the script name and the parameters; when the script
\* returns, the record has status "success" and the script's result; the
\* script is invoked exactly once per call.
ScriptFailureIsReported ==
    (/\ last.op = "execute_automation"
     /\ Registered(last.automation_type, last.script_name))
        => LET outcome == script_function(last.automation_type,
                              last.script_name, last.parameters, last.now,
                              last.write_ok)
           IN  /\ last.raised = None
               /\ last.invoked = <<<<last.automation_type, last.script_name>>>>
               /\ last.ret.automation_type = last.automation_type
               /\ last.ret.script_name = last.script_name
               /\ last.ret.parameters = last.parameters
               /\ ~outcome.ok
                     => /\ last.ret.status = "failed"
                        /\ last.ret.error = outcome.err
                        /\ "result" \notin DOMAIN last.ret
               /\ outcome.ok
                     => /\ last.ret.status = "success"
                        /\ last.ret.result = outcome.val
                        /\ "error" \notin DOMAIN last.ret

\* create_snapshot with income 0 has divided by zero
SnapshotOfZeroIncomeFailed ==
    /\ last.op = "execute_automation"
    /\ last.script_name = "create_snapshot"
    /\ last.raised = None
    /\ last.ret.status = "failed"
    /\ last.ret.error = "float division by zero"


\* the float nearest to the fraction num/den
NearestFloat(num, den) == FloatDiv(FloatOfInt(num), FloatOfInt(den))

\* sum(analysis.values()): the seven percentages added in dictionary order
PercentSum(analysis) ==
    FloatAdd(FloatAdd(FloatAdd(FloatAdd(FloatAdd(FloatAdd(
        analysis.housing_percent, analysis.food_percent),
        analysis.transport_percent), analysis.utilities_percent),
        analysis.entertainment_percent), analysis.savings_percent),
        analysis.other_percent)

\* C21: for every positive income, create_budget_snapshot returns the
\* percentages 30, 15, 10, 5, 10, 20, 10, which sum to 100, total_expenses
\* equal to 80% of income, savings equal to 20% of income, and balance 0.
SnapshotSplitIsExact ==
    (last.op = "create_budget_snapshot" /\ last.income > 0)
       => /\ last.ret.ok
          /\ LET budget == last.ret.val
                 analysis == budget.analysis
             IN  /\ analysis.housing_percent = FloatOfInt(30)
                 /\ analysis.food_percent = FloatOfInt(15)
                 /\ analysis.transport_percent = FloatOfInt(10)
                 /\ analysis.utilities_percent = FloatOfInt(5)
                 /\ analysis.entertainment_percent = FloatOfInt(10)
                 /\ analysis.savings_percent = FloatOfInt(20)
                 /\ analysis.other_percent = FloatOfInt(10)
                 /\ PercentSum(analysis) = FloatOfInt(100)
                 /\ budget.total_expenses = NearestFloat(4 * last.income, 5)
                 /\ budget.savings = NearestFloat(last.income, 5)
                 /\ budget.balance
                       = FloatSub(FloatOfInt(last.income),
                                  FloatAdd(budget.total_expenses,
                                           budget.savings))
                 /\ budget.balance = FloatZero


\* the label and priority the mapping gives the block that starts at hour h
LabelOf(h) ==
    IF h \in 8..11 THEN <<"Deep Work", "High">>
    ELSE IF h = 12 THEN <<"Break", "Medium">>
    ELSE IF h \in 13..15 THEN <<"Collaboration", "Medium">>
    ELSE <<"Wrap-up", "Low">>

\* C22: create_daily_schedule makes one block for every hour h of the
\* requested range, in ascending hour order, each 60 minutes long and labelled
\* 'Deep Work'/High for 8..11, 'Break'/Medium for 12, 'Collaboration'/Medium
\* for 13..15 and 'Wrap-up'/Low otherwise; for 8 and 18 that is exactly 10
\* blocks, the first four 'Deep Work' and the one at hour 12 'Break'.
BlocksFollowTheHourMapping ==
    (last.op = "create_daily_schedule" /\ last.ret.ok)
       => LET blocks == last.ret.val.time_blocks
          IN  /\ Len(blocks) = Cardinality(
                     {h \in HourInputs : last.start_hour <= h
                                            /\ h < last.end_hour})
              /\ \A k \in 1..Len(blocks) :
                    /\ blocks[k].start_time.hour = last.start_hour + k - 1
                    /\ blocks[k].start_time.minute = 0
                    /\ blocks[k].end_time.hour = last.start_hour + k
                    /\ blocks[k].end_time.minute = 0
                    /\ blocks[k].duration_minutes = 60
                    /\ <<blocks[k].task_type, blocks[k].priority>>
                          = LabelOf(blocks[k].start_time.hour)
              /\ (last.start_hour = 8 /\ last.end_hour = 18)
                    => /\ Len(blocks) = 10
                       /\ \A k \in 1..4 : blocks[k].task_type = "Deep Work"
                       /\ blocks[5].start_time.hour = 12
                       /\ blocks[5].task_type = "Break"

\* the schedule of the hours 8 to 18 has been made
ScheduleOfWorkingDay ==
    /\ last.op = "create_daily_schedule"
    /\ last.start_hour = 8
    /\ last.end_hour = 18
    /\ last.ret.ok
    /\ Len(last.ret.val.time_blocks) = 10


\* C23: for every start_hour and end_hour in 0..23, create_daily_schedule
\* returns a schedule whose number of time blocks equals end_hour - start_hour
\* and equals its reported total_work_hours.
BlockCountIsHourDifference ==
    (/\ last.op = "create_daily_schedule"
     /\ last.start_hour \in 0..23
     /\ last.end_hour \in 0..23)
       => /\ last.ret.ok
          /\ Len(last.ret.val.time_blocks) = last.end_hour - last.start_hour
          /\ Len(last.ret.val.time_blocks) = last.ret.val.total_work_hours


\* the recommendations hold a message that starts with the given words
Emitted(recs, words) == \E k \in 1..Len(recs) : recs[k][1] = words

\* C24: analyze_budget emits the housing recommendation exactly when
\* housing_percent > 30, the savings recommendation exactly when
\* savings_percent < 20 and the entertainment recommendation exactly when
\* entertainment_percent > 10, then always the three general recommendations
\* as the last three entries; for a snapshot made by create_budget_snapshot
\* the result is exactly the three general recommendations.
SnapshotGetsOnlyGeneralRecommendations ==
    (last.op = "analyze_budget" /\ last.ret.ok)
       => LET recs == last.ret.val.recommendations
              analysis == last.budget.analysis
          IN  /\ Emitted(recs, "Housing costs are ")
                    <=> FloatGreater(analysis.housing_percent, FloatOfInt(30))
              /\ Emitted(recs, "Savings are only ")
                    <=> FloatLess(analysis.savings_percent, FloatOfInt(20))
              /\ Emitted(recs, "Entertainment expenses are ")
                    <=> FloatGreater(analysis.entertainment_percent,
                                     FloatOfInt(10))
              /\ Len(recs) >= 3
              /\ SubSeq(recs, Len(recs) - 2, Len(recs))
                    = GeneralRecommendations
              /\ last.of_snapshot => recs = GeneralRecommendations


\* the template generate_plan uses for a problem id
TemplateOf(problem_id) ==
    LET category == DictGet(problem_categories, problem_id, "general")
    IN  DictGet(SamplePlansTable, category, SamplePlansTable["general"])

\* C25: plans are never mutated after generation: whatever solve_problem,
\* task materialization, update_task, delete_task and dashboard calls follow,
\* the template table is the one the program started with, and the summary
\* and the steps of a plan returned earlier (its step list is the template's
\* own list) are those of its template.
PlansAreNeverMutated ==
    /\ SAMPLE_PLANS = SamplePlansTable
    /\ remembered # None
          => /\ remembered.summary = TemplateOf(remembered.problem_id).summary
             /\ remembered.steps
                   = SAMPLE_PLANS[DictGet(problem_categories,
                                          remembered.problem_id,
                                          "general")].steps
    /\ Solved
          => /\ last.ret.plan.summary = TemplateOf(last.problem_id).summary
             /\ last.ret.plan.steps = TemplateOf(last.problem_id).steps

\* a plan was kept, its tasks were materialized, the first of them was
\* deleted, and the dashboard was read
KeptPlanSurvivedTheTaskCalls ==
    /\ remembered # None
    /\ last.op = "get_user_dashboard"
    /\ Len(tasks) > 0
    /\ \A i \in 1..Len(tasks) : tasks[i].id # 1


\* C26: in each of the four templates the step_ids are 1..6 in list order
\* and the parsed due offsets are non-decreasing in step order, so the tasks
\* of one materialized batch have due times that are non-decreasing in step
\* order and in task-id order, and the first step's task is due at the batch
\* creation instant.
TemplatesAreInDueOrder ==
    /\ DOMAIN SAMPLE_PLANS = {"shopping", "productivity", "finance", "general"}
    /\ \A category \in DOMAIN SAMPLE_PLANS :
          LET steps == SAMPLE_PLANS[category].steps
              Minutes(k) == parse_due_offset(steps[k].due_offset)
          IN  /\ Len(steps) = 6
              /\ \A k \in 1..Len(steps) :
                    steps[k].step_id = k /\ Minutes(k).ok
              /\ \A j, k \in 1..Len(steps) :
                    j < k => Minutes(j).val <= Minutes(k).val
    /\ Materialized
          => LET batch == last.ret.tasks
                 Due(k) == fromisoformat(batch[k].due_at)
             IN  /\ Len(batch) = 6
                 /\ \A j, k \in 1..Len(batch) :
                       j < k => Due(j) <= Due(k) /\ batch[j].id < batch[k].id
                 /\ Due(1) = last.base_time

\* a batch materialized from the finance template after time has passed
FinanceBatchLater ==
    /\ Materialized
    /\ last.problem_id = 3
    /\ last.base_time > 0
    /\ fromisoformat(last.ret.tasks[6].due_at)
          > fromisoformat(last.ret.tasks[2].due_at)


\* both callers have built their task
BothBuilt == \A c \in Callers : in_flight[c].pc # "idle"
\* both calls have returned
BothReturned == \A c \in Callers : in_flight[c].pc = "returned"

\* C27: the task store takes no lock: when each of the two add_task calls
\* runs without the other in between, their identifiers differ and the ids
\* of the store stay unique; when one call reads next_id between the other's
\* read of next_id and its increment, both new tasks get the same identifier.
InterleavedCallsShareAnId ==
    /\ in_flight = <<>> \/ DOMAIN in_flight = Callers
    /\ (in_flight # <<>> /\ BothBuilt)
          => LET raced == \E c \in Callers : in_flight[c].interleaved
             IN  /\ raced <=> in_flight["a"].task.id = in_flight["b"].task.id
                 /\ (BothReturned /\ ~raced)
                       => \A i, j \in 1..Len(tasks) :
                             i # j => tasks[i].id # tasks[j].id
                 /\ (BothReturned /\ raced)
                       => \E i, j \in 1..Len(tasks) :
                             i # j /\ tasks[i].id = tasks[j].id

\* both calls returned the same id after interleaving
TwoTasksWithOneId ==
    /\ in_flight # <<>>
    /\ BothReturned
    /\ in_flight["b"].interleaved
    /\ in_flight["a"].task.id = in_flight["b"].task.id
    /\ Len(tasks) >= 2
    /\ tasks[Len(tasks)].id = tasks[Len(tasks) - 1].id


\* the (automation type, script) pairs of the registry
RegisteredPairs ==
    {pair \in (AutomationTypeInputs \cup DOMAIN automation_registry)
                 \X (ScriptNameInputs
                        \cup UNION {automation_registry[t] :
                                       t \in DOMAIN automation_registry}) :
        Registered(pair[1], pair[2])}

\* C28: execute_automation with a type that is not registered, or a script
\* not registered under that type, raises ValueError to the caller, returns no
\* record and runs no script; the registered pairs are exactly
\* budget/create_snapshot, budget/analyze, productivity/create_schedule and
\* productivity/focus_timer.
UnregisteredCallRaises ==
    /\ DOMAIN automation_registry = {"budget", "productivity"}
    /\ automation_registry["budget"] = {"create_snapshot", "analyze"}
    /\ automation_registry["productivity"] = {"create_schedule", "focus_timer"}
    /\ RegisteredPairs = {<<"budget", "create_snapshot">>,
                          <<"budget", "analyze">>,
                          <<"productivity", "create_schedule">>,
                          <<"productivity", "focus_timer">>}
    /\ last.op = "execute_automation"
          => IF <<last.automation_type, last.script_name>> \in RegisteredPairs
             THEN last.raised = None
             ELSE /\ last.raised # None
                  /\ ~last.raised.ok
                  /\ last.raised.err
                        = (IF last.automation_type \in {"budget", "productivity"}
                           THEN "Unknown script"
                           ELSE "Unknown automation type")
                  /\ last.ret = None
                  /\ last.invoked = <<>>

\* a script was asked for under the type that does not have it
ScriptOfTheOtherType ==
    /\ last.op = "execute_automation"
    /\ last.automation_type = "budget"
    /\ last.script_name = "focus_timer"
    /\ last.raised = Raise("Unknown script")


\* the suggestions of the solve_problem result that was kept
Suggestions == remembered.automation_suggestions

\* C29: every automation suggestion solve_problem returns, for any problem
\* id, names a type and a script registered in the automation registry, so
\* passing it to execute_automation never raises the unknown-type or
\* unknown-script error; a plan gets at most one budget suggestion and at
\* most one productivity suggestion.
SuggestionsAreRegistered ==
    (remembered # None /\ "automation_suggestions" \in DOMAIN remembered)
       => /\ \A k \in 1..Len(Suggestions) :
                /\ Suggestions[k].type \in DOMAIN automation_registry
                /\ Suggestions[k].script
                      \in automation_registry[Suggestions[k].type]
          /\ \A j, k \in 1..Len(Suggestions) :
                Suggestions[j].type = Suggestions[k].type => j = k
          /\ \A k \in 1..Len(Suggestions) :
                Suggestions[k].type \in {"budget", "productivity"}
          /\ (/\ last.op = "execute_automation"
              /\ \E k \in 1..Len(Suggestions) :
                    /\ Suggestions[k].type = last.automation_type
                    /\ Suggestions[k].script = last.script_name)
                => last.raised = None

\* the second suggestion of the shopping plan was executed
ShoppingScheduleExecuted ==
    /\ remembered # None
    /\ "automation_suggestions" \in DOMAIN remembered
    /\ remembered.problem_id = 1
    /\ Len(Suggestions) = 2
    /\ last.op = "execute_automation"
    /\ last.automation_type = Suggestions[2].type
    /\ last.script_name = Suggestions[2].script
    /\ last.raised = None


\* C30: every plan generate_plan returns has plan_id 1 whatever the problem
\* id, so after solve_problem calls for different problems every materialized
\* task carries plan_id 1; get_tasks_by_plan(1) returns all of them in
\* insertion order and get_tasks_by_plan(p) for p # 1 returns none of them.
EveryTaskIsOfPlanOne ==
    /\ \A p \in ProblemIdInputs : generate_plan(p).plan_id = 1
    /\ Solved => last.ret.plan.plan_id = 1
    /\ \A i \in 1..Len(tasks) : tasks[i].plan_id = 1
    /\ \A i \in 1..Len(tasks) : tasks[i].id = i
    /\ last.op = "get_tasks_by_plan"
          => IF last.plan_id = 1 THEN last.ret = tasks ELSE last.ret = <<>>

\* the tasks of plan 1 were asked for when the store held the batches of two
\* different problems
AskedAfterTwoProblems ==
    /\ last.op = "get_tasks_by_plan"
    /\ last.plan_id = 1
    /\ Len(last.ret) = 12
    /\ last.ret[1].title = "Create a meal plan"
    /\ last.ret[7].title = "Track current spending"

====
